---- MODULE Spec2Model ----
(***************************************************************************)
(* State-machine model of the CDCL SAT solver of Yices 2                   *)
(* (src/solvers/cdcl/new_sat_solver.c).                                    *)
(*                                                                         *)
(* The solver object (sat_solver_t) is the record held by the variable     *)
(* `solver`; its fields keep the names of the C structure.  Every C        *)
(* function that changes the solver is an operator from a solver record    *)
(* to a solver record; the public operations and the steps of nsat_solve   *)
(* are the actions.  C arrays are sequences: the C element a[i] is the     *)
(* element a[i+1] of the sequence (operators At and Upd).                  *)
(***************************************************************************)
EXTENDS Integers, Sequences, FiniteSets, TLC

(***************************************************************************)
(* Bounds of the model                                                     *)
(***************************************************************************)
\* largest number of variables created besides the reserved variable 0
MaxVars == 4
\* largest number of clauses given to assert_clause between two resets
MaxClauses == 5
\* largest number of calls of reset_nsat_solver in one run
MaxResets == 1

(***************************************************************************)
(* Arrays with C indices                                                   *)
(***************************************************************************)
At(a, i) == a[i + 1]

Upd(a, i, x) == [a EXCEPT ![i + 1] = x]

\* a[0 .. n-1]
Prefix(a, n) == SubSeq(a, 1, n)

\* n copies of x
Fill(n, x) == [i \in 1..n |-> x]

Min2(a, b) == IF a <= b THEN a ELSE b

Max2(a, b) == IF a >= b THEN a ELSE b

(***************************************************************************)
(* Literals and truth values                                               *)
(***************************************************************************)
pos_lit(x) == 2 * x

neg_lit(x) == 2 * x + 1

var_of(l) == l \div 2

is_neg(l) == l % 2

is_pos(l) == (l % 2) = 0

\* l ^ 1
not(l) == IF l % 2 = 0 THEN l + 1 ELSE l - 1

\* l ^ s for a sign bit s
xor_sign(l, s) == IF s = 0 THEN l ELSE not(l)

VAL_UNDEF_FALSE == 0

VAL_UNDEF_TRUE == 1

VAL_FALSE == 2

VAL_TRUE == 3

\* v ^ 1: the value of the opposite literal
opposite_val(v) == IF v % 2 = 0 THEN v + 1 ELSE v - 1

\* v ^ 2: the value after the assignment is undone
unassigned_val(v) == IF v >= 2 THEN v - 2 ELSE v + 2

ATAG_NONE == 0

ATAG_UNIT == 1

ATAG_DECISION == 2

ATAG_BINARY == 3

ATAG_CLAUSE == 4

ATAG_STACKED == 5

ATAG_PURE == 6

ATAG_ELIM == 7

ATAG_SUBST == 8

STAT_UNKNOWN == "unknown"

STAT_SAT == "sat"

STAT_UNSAT == "unsat"

CTAG_NONE == "none"

CTAG_BINARY == "binary"

CTAG_CLAUSE == "clause"

CTAG_STACKED == "stacked"

\* level of an unassigned variable (the model's integers have 31 bits)
UINT32_MAX == 2147483647


(***************************************************************************)
(* Fixed-point numbers.  Activities are C doubles and floats: the model    *)
(* keeps them as integers in units of 1/ACT_ONE.                           *)
(***************************************************************************)
ACT_ONE == 100000

\* x * (1/0.95), the factor 1/VAR_DECAY_FACTOR
var_decay(x) == (x * 20) \div 19

\* x * (1/0.999), the factor 1/CLAUSE_DECAY_FACTOR
clause_decay(x) == (x * 1000) \div 999

(***************************************************************************)
(* Default search parameters                                               *)
(***************************************************************************)
KEEP_LBD == 4

REDUCE_FRACTION == 16

REDUCE_INTERVAL == 2000

REDUCE_DELTA == 300

SEARCH_PERIOD == 10000

SEARCH_COUNTER == 20

RESTART_INTERVAL == 10

STACK_THRESHOLD == 4

DIVING_BUDGET == 10000

SUBSUME_SKIP == 3000

VAR_ELIM_SKIP == 10

RES_CLAUSE_LIMIT == 20

SIMPLIFY_INTERVAL == 100

SIMPLIFY_BIN_DELTA == 100

\* (uint32_t) (VAR_RANDOM_FACTOR * VAR_RANDOM_SCALE) = 0.02 * 2^24
DEFAULT_RANDOMNESS == 335544

VAR_RANDOM_SCALE == 16777216

\* 32-bit words of the PRNG are pairs <<high 16 bits, low 16 bits>>
HALF == 65536

\* PRNG_SEED = 0xabcdef98
PRNG_SEED == <<43981, 61336>>

\* PRNG_MULTIPLIER = 1664525 = 0x0019660D
PRNG_MULTIPLIER == <<25, 26125>>

\* PRNG_CONSTANT = 1013904223 = 0x3C6EF35F
PRNG_CONSTANT == <<15470, 62303>>

init_params ==
  [ seed |-> PRNG_SEED,
    randomness |-> DEFAULT_RANDOMNESS,
    stack_threshold |-> STACK_THRESHOLD,
    keep_lbd |-> KEEP_LBD,
    reduce_fraction |-> REDUCE_FRACTION,
    reduce_interval |-> REDUCE_INTERVAL,
    reduce_delta |-> REDUCE_DELTA,
    restart_interval |-> RESTART_INTERVAL,
    search_period |-> SEARCH_PERIOD,
    search_counter |-> SEARCH_COUNTER,
    diving_budget |-> DIVING_BUDGET,
    var_elim_skip |-> VAR_ELIM_SKIP,
    subsume_skip |-> SUBSUME_SKIP,
    res_clause_limit |-> RES_CLAUSE_LIMIT,
    simplify_interval |-> SIMPLIFY_INTERVAL,
    simplify_bin_delta |-> SIMPLIFY_BIN_DELTA ]

init_stats ==
  [ decisions |-> 0, random_decisions |-> 0, propagations |-> 0,
    conflicts |-> 0, subst_vars |-> 0, pp_subst_vars |-> 0 ]

(***************************************************************************)
(* Clause pool: a flat array of words.  A clause at index cidx is the      *)
(* header data[cidx] = length, data[cidx+1] = aux, then the literals; a    *)
(* padding block is the header data[i] = 0, data[i+1] = length of the      *)
(* block.  Capacities and allocation failures are not modelled.            *)
(***************************************************************************)
\* bit 31 of the length word in C; bit 30 in the model's 31-bit integers
CLAUSE_MARK == 1073741824

init_clause_pool ==
  [ data |-> <<>>, learned |-> 0, size |-> 0, padding |-> 0,
    num_prob_clauses |-> 0, num_prob_literals |-> 0,
    num_learned_clauses |-> 0, num_learned_literals |-> 0 ]

\* (n + 3) & ~3
round4(n) == ((n + 3) \div 4) * 4

\* (n + 5) & ~3
full_length(n) == ((n + 5) \div 4) * 4

\* clause_pool_alloc_array + clause_pool_init_clause: the words past the
\* literals are never read and are 0 in the model
clause_pool_init_clause(pool, n, a) ==
  [pool EXCEPT !.data = pool.data \o <<n, 0>> \o a \o Fill(round4(n + 2) - (n + 2), 0),
               !.size = pool.size + round4(n + 2)]

\* index of the clause is pool.size before the call
clause_pool_add_problem_clause(pool, n, a) ==
  LET p == clause_pool_init_clause(pool, n, a)
  IN  [p EXCEPT !.num_prob_clauses = @ + 1,
                !.num_prob_literals = @ + n,
                !.learned = p.size]

clause_pool_add_learned_clause(pool, n, a) ==
  LET p == clause_pool_init_clause(pool, n, a)
  IN  [p EXCEPT !.num_learned_clauses = @ + 1,
                !.num_learned_literals = @ + n]

is_learned_clause_idx(pool, idx) == idx >= pool.learned

is_problem_clause_idx(pool, idx) == idx < pool.learned

clause_is_unmarked(pool, idx) == At(pool.data, idx) < CLAUSE_MARK

mark_clause(pool, idx) ==
  IF clause_is_unmarked(pool, idx)
  THEN [pool EXCEPT !.data = Upd(@, idx, At(pool.data, idx) + CLAUSE_MARK)]
  ELSE pool

unmark_clause(pool, idx) ==
  IF clause_is_unmarked(pool, idx)
  THEN pool
  ELSE [pool EXCEPT !.data = Upd(@, idx, At(pool.data, idx) - CLAUSE_MARK)]

clause_length(pool, idx) == At(pool.data, idx) % CLAUSE_MARK

\* the literals of clause idx, as a sequence
clause_literals(pool, idx) ==
  SubSeq(pool.data, idx + 3, idx + 2 + clause_length(pool, idx))

clause_aux(pool, idx) == At(pool.data, idx + 1)

first_literal_of_clause(pool, cidx) == At(pool.data, cidx + 2)

second_literal_of_clause(pool, cidx) == At(pool.data, cidx + 3)

\* l0 ^ l1 ^ l
other_watched_literal_of_clause(pool, cidx, l) ==
  IF first_literal_of_clause(pool, cidx) = l
  THEN second_literal_of_clause(pool, cidx)
  ELSE first_literal_of_clause(pool, cidx)

is_padding_start(pool, i) == At(pool.data, i) = 0

is_clause_start(pool, i) == ~is_padding_start(pool, i)

padding_length(pool, i) == At(pool.data, i + 1)

\* variant of clause_pool_padding: the block is never merged
clause_pool_padding_alone(pool, i, n) ==
  [pool EXCEPT !.padding = @ + n,
               !.data = Upd(Upd(@, i, 0), i + 1, n)]

clause_pool_padding(pool, i, n) ==
  LET j == i + n
      m == IF j < pool.size /\ is_padding_start(pool, j)
           THEN n + padding_length(pool, j) ELSE n
  IN  [pool EXCEPT !.padding = @ + n,
                   !.data = Upd(Upd(@, i, 0), i + 1, m)]

clause_pool_delete_clause(pool, idx) ==
  LET n == clause_length(pool, idx)
      p == IF is_problem_clause_idx(pool, idx)
           THEN [pool EXCEPT !.num_prob_clauses = @ - 1,
                             !.num_prob_literals = @ - n]
           ELSE [pool EXCEPT !.num_learned_clauses = @ - 1,
                             !.num_learned_literals = @ - n]
  IN  clause_pool_padding(p, idx, full_length(n))

clause_pool_shrink_clause(pool, idx, n) ==
  LET old == At(pool.data, idx)
      mark == IF old >= CLAUSE_MARK THEN CLAUSE_MARK ELSE 0
      old_n == old % CLAUSE_MARK
      old_len == full_length(old_n)
      new_len == full_length(n)
      p1 == IF is_problem_clause_idx(pool, idx)
            THEN [pool EXCEPT !.num_prob_literals = @ - (old_n - n)]
            ELSE [pool EXCEPT !.num_learned_literals = @ - (old_n - n)]
      p2 == IF new_len < old_len
            THEN clause_pool_padding(p1, idx + new_len, old_len - new_len)
            ELSE p1
  IN  [p2 EXCEPT !.data = Upd(@, idx, mark + n)]

\* The loop of next_clause_index does not end when it reaches a padding
\* block whose length word is 0: i += 0 for ever.
RECURSIVE scan_diverges(_, _)
scan_diverges(pool, i) ==
  IF i < pool.size /\ is_padding_start(pool, i)
  THEN IF padding_length(pool, i) = 0 THEN TRUE
       ELSE scan_diverges(pool, i + padding_length(pool, i))
  ELSE FALSE

RECURSIVE next_clause_index(_, _)
next_clause_index(pool, i) ==
  IF i < pool.size /\ is_padding_start(pool, i) /\ padding_length(pool, i) > 0
  THEN next_clause_index(pool, i + padding_length(pool, i))
  ELSE i

clause_pool_first_clause(pool) == next_clause_index(pool, 0)

clause_pool_first_learned_clause(pool) == next_clause_index(pool, pool.learned)

clause_pool_next_clause(pool, idx) ==
  IF idx = pool.size THEN idx
  ELSE next_clause_index(pool,
         idx + (IF is_clause_start(pool, idx)
                THEN full_length(clause_length(pool, idx)) ELSE 0))

clause_is_live(pool, cidx) == cidx % 4 = 0 /\ is_clause_start(pool, cidx)

(***************************************************************************)
(* Sorting and signatures                                                  *)
(***************************************************************************)
RECURSIVE sorted_insert(_, _)
sorted_insert(a, x) ==
  IF a = <<>> THEN <<x>>
  ELSE IF x >= a[Len(a)] THEN Append(a, x)
  ELSE Append(sorted_insert(SubSeq(a, 1, Len(a) - 1), x), a[Len(a)])

\* int_array_sort, uint_array_sort: increasing order
RECURSIVE int_array_sort(_)
int_array_sort(a) ==
  IF a = <<>> THEN <<>>
  ELSE sorted_insert(int_array_sort(SubSeq(a, 1, Len(a) - 1)), a[Len(a)])

RECURSIVE pow2(_)
pow2(n) == IF n = 0 THEN 1 ELSE 2 * pow2(n - 1)

\* 1u << (x & 31u); the model's variables are smaller than 31
var_signature(x) == pow2(x % 32)

has_bit(w, x) == (w \div pow2(x)) % 2 = 1

\* w | var_signature(x)
sig_add(w, x) == IF has_bit(w, x) THEN w ELSE w + var_signature(x)

RECURSIVE sig_of_lits(_, _, _)
sig_of_lits(a, i, w) ==
  IF i > Len(a) THEN w ELSE sig_of_lits(a, i + 1, sig_add(w, var_of(a[i])))

\* (~q & s) != 0
sig_not_subset(s, q) == \E x \in 0..(MaxVars + 1) : has_bit(s, x) /\ ~has_bit(q, x)

set_clause_signature(pool, cidx) ==
  [pool EXCEPT !.data = Upd(@, cidx + 1, sig_of_lits(clause_literals(pool, cidx), 1, 0))]

clause_signature(pool, cidx) == clause_aux(pool, cidx)

(***************************************************************************)
(* Watch vectors.  An element k of watch[l] is a clause index (k even), in *)
(* search mode followed by a blocker literal, or 2 * l1 + 1 for the binary *)
(* clause {l, l1}.  A NULL vector is the empty sequence.                   *)
(***************************************************************************)
lit2idx(l) == 2 * l + 1

idx2lit(k) == k \div 2

idx_is_clause(k) == k % 2 = 0

idx_is_literal(k) == k % 2 = 1

\* variant of add_clause_watch: the vector is left as it is
skip_clause_watch(s, l, cidx, l1) == s

add_clause_watch(s, l, cidx, l1) ==
  [s EXCEPT !.watch = Upd(@, l, At(s.watch, l) \o <<cidx, l1>>)]

add_literal_watch(s, l, l1) ==
  [s EXCEPT !.watch = Upd(@, l, Append(At(s.watch, l), lit2idx(l1)))]

RECURSIVE add_clause_all_watch(_, _, _, _)
add_clause_all_watch(s, lit, i, cidx) ==
  IF i > Len(lit) THEN s
  ELSE add_clause_all_watch(
         [s EXCEPT !.watch = Upd(@, lit[i], Append(At(s.watch, lit[i]), cidx))],
         lit, i + 1, cidx)

(***************************************************************************)
(* Truth values of literals and variables                                  *)
(***************************************************************************)
lit_value(s, l) == At(s.value, l)

var_value(s, x) == At(s.value, pos_lit(x))

\* (value[l] & 2) == 0
lit_is_unassigned(s, l) == lit_value(s, l) < 2

var_is_unassigned(s, x) == lit_is_unassigned(s, pos_lit(x))

lit_is_assigned(s, l) == ~lit_is_unassigned(s, l)

var_is_assigned(s, x) == ~var_is_unassigned(s, x)

lit_is_true(s, l) == lit_value(s, l) = VAL_TRUE

lit_is_false(s, l) == lit_value(s, l) = VAL_FALSE

\* lit_prefers_true: (value[l] & 1) != 0
lit_prefers_true(s, l) == lit_value(s, l) % 2 = 1

\* an active variable is unassigned and neither pure, eliminated nor substituted
var_is_active(s, x) == var_is_unassigned(s, x) /\ At(s.ante_tag, x) < ATAG_PURE

lit_is_active(s, l) == var_is_active(s, var_of(l))

var_is_eliminated(s, x) == At(s.ante_tag, x) >= ATAG_PURE

set_true(s, l) ==
  [s EXCEPT !.value = Upd(Upd(@, l, VAL_TRUE), not(l), VAL_FALSE)]

set_antecedent(s, v, tag, data, lvl) ==
  [s EXCEPT !.ante_tag = Upd(@, v, tag),
            !.ante_data = Upd(@, v, data),
            !.level = Upd(@, v, lvl)]

push_literal(s, l) ==
  [s EXCEPT !.stack.lit = Append(@, l), !.stack.top = @ + 1]

\* assign l at the base level, with antecedent ATAG_UNIT
assign_literal(s, l) ==
  set_antecedent(set_true(push_literal(s, l), l), var_of(l), ATAG_UNIT, 0, 0)

\* variant of implied_literal: the level of the literal is not recorded
implied_literal_at_base_level(s, l, tag, data) ==
  LET s1 == [s EXCEPT !.stats.propagations = @ + 1]
  IN  set_antecedent(set_true(push_literal(s1, l), l), var_of(l), tag, data, 0)

implied_literal(s, l, tag, data) ==
  LET s1 == [s EXCEPT !.stats.propagations = @ + 1]
  IN  set_antecedent(set_true(push_literal(s1, l), l), var_of(l), tag, data,
                     s.decision_level)

clause_propagation(s, l, cidx) == implied_literal(s, l, ATAG_CLAUSE, cidx)

binary_clause_propagation(s, l, l0) == implied_literal(s, l, ATAG_BINARY, l0)

nsat_decide_literal(s, l) ==
  LET k == s.decision_level + 1
      s1 == [s EXCEPT !.stats.decisions = @ + 1,
                      !.decision_level = k,
                      !.stack.level_index = Append(Prefix(@, k), s.stack.top),
                      !.stash.level = Append(Prefix(@, k), s.stash.top)]
  IN  set_antecedent(set_true(push_literal(s1, l), l), var_of(l), ATAG_DECISION, 0, k)

(***************************************************************************)
(* Construction, reset, new variables                                      *)
(***************************************************************************)
\* heap[0] = 0 is a marker whose activity (DBL_MAX) is above every other
init_heap ==
  [ activity |-> <<UINT32_MAX>>, heap_index |-> <<0>>, heap |-> <<0>>,
    heap_last |-> 0, nvars |-> 1, vmax |-> 1, act_increment |-> ACT_ONE ]

init_stack == [ lit |-> <<>>, level_index |-> <<0>>, top |-> 0, prop_ptr |-> 0 ]

init_clause_stack == [ data |-> <<>>, top |-> 0, level |-> <<0>> ]

init_elim_heap == [ data |-> <<>>, elim_idx |-> <<>>, size |-> 0 ]

\* the solver after init_nsat_solver(solver, sz, pp)
init_nsat_solver(pp) ==
  [ status |-> STAT_UNKNOWN,
    decision_level |-> 0,
    backtrack_level |-> 0,
    preprocess |-> pp,
    nvars |-> 1,
    nliterals |-> 2,
    value |-> <<VAL_TRUE, VAL_FALSE>>,
    ante_tag |-> <<ATAG_UNIT>>,
    ante_data |-> <<0>>,
    level |-> <<0>>,
    watch |-> << <<>>, <<>> >>,
    occ |-> IF pp THEN <<0, 0>> ELSE <<>>,
    heap |-> init_heap,
    stack |-> init_stack,
    has_empty_clause |-> FALSE,
    units |-> 0,
    binaries |-> 0,
    pool |-> init_clause_pool,
    stash |-> init_clause_stack,
    conflict_tag |-> CTAG_NONE,
    conflict_buffer |-> <<0, 0>>,
    conflict_index |-> 0,
    params |-> init_params,
    stats |-> init_stats,
    saved_clauses |-> <<>>,
    lqueue |-> <<>>,
    elim |-> init_elim_heap,
    cqueue |-> <<>>,
    scan_index |-> 0,
    prng |-> PRNG_SEED,
    cla_inc |-> ACT_ONE,
    diving |-> FALSE,
    dive_budget |-> 0,
    dive_start |-> 0,
    max_depth |-> 0,
    max_depth_conflicts |-> 0,
    progress |-> 0,
    check_next |-> 0,
    slow_ema |-> <<0, 0>>,
    fast_ema |-> <<0, 0>>,
    level_ema |-> <<0, 0>>,
    restart_next |-> 0,
    reduce_next |-> 0,
    reduce_inc |-> 0,
    reduce_inc2 |-> 0,
    simplify_assigned |-> 0,
    simplify_binaries |-> 0,
    simplify_next |-> 0,
    simplify_new_bins |-> 0,
    simplify_new_units |-> 0,
    in_scan_loop |-> FALSE ]

\* reset_heap: act_increment and nvars are kept.  The entries 1 .. nvars-1
\* are set to (activity 0, heap_index -1), which is also what heap_add_vars
\* writes, so the model drops them here and adds them back in heap_add_vars.
reset_heap(heap) ==
  [heap EXCEPT !.heap_last = 0, !.vmax = 1, !.heap = <<0>>,
               !.heap_index = <<0>>,
               !.activity = <<UINT32_MAX>>]

\* reset_nsat_solver: the entries of the arrays past nvars are dead storage,
\* which the model drops; params, preprocess and the search fields are kept
reset_nsat_solver(s) ==
  [s EXCEPT !.status = STAT_UNKNOWN,
            !.decision_level = 0,
            !.backtrack_level = 0,
            !.nvars = 1,
            !.nliterals = 2,
            !.value = Prefix(@, 2),
            !.ante_tag = Prefix(@, 1),
            !.ante_data = Prefix(@, 1),
            !.level = Prefix(@, 1),
            !.watch = Prefix(@, 2),
            !.occ = IF @ = <<>> THEN @ ELSE Prefix(@, 2),
            !.heap = reset_heap(@),
            !.stack = init_stack,
            !.has_empty_clause = FALSE,
            !.units = 0,
            !.binaries = 0,
            !.pool = init_clause_pool,
            !.stash = init_clause_stack,
            !.conflict_tag = CTAG_NONE,
            !.stats = init_stats,
            !.saved_clauses = <<>>,
            !.lqueue = <<>>,
            !.elim = init_elim_heap,
            !.cqueue = <<>>]

heap_add_vars(heap, n) ==
  [heap EXCEPT !.heap_index = @ \o Fill(n - Len(@), -1),
               !.activity = @ \o Fill(n - Len(@), 0),
               !.nvars = n]

RECURSIVE init_values(_)
init_values(n) ==
  IF n = 0 THEN <<>> ELSE <<VAL_UNDEF_FALSE, VAL_UNDEF_TRUE>> \o init_values(n - 1)

\* variant of nsat_solver_add_vars: the values are initialised from index 0
add_vars_from_zero(s, n) ==
  LET nv == s.nvars + n
  IN  [s EXCEPT !.value = init_values(nv),
                !.ante_tag = Prefix(@, s.nvars) \o Fill(n, ATAG_NONE),
                !.ante_data = Prefix(@, s.nvars) \o Fill(n, 0),
                !.level = Prefix(@, s.nvars) \o Fill(n, UINT32_MAX),
                !.watch = Prefix(@, s.nliterals) \o Fill(2 * n, <<>>),
                !.occ = IF s.preprocess THEN @ \o Fill(2 * n, 0) ELSE @,
                !.heap = heap_add_vars(@, nv),
                !.nvars = nv,
                !.nliterals = 2 * nv]

nsat_solver_add_vars(s, n) ==
  LET nv == s.nvars + n
  IN  [s EXCEPT !.value = Prefix(@, s.nliterals) \o init_values(n),
                !.ante_tag = Prefix(@, s.nvars) \o Fill(n, ATAG_NONE),
                !.ante_data = Prefix(@, s.nvars) \o Fill(n, 0),
                !.level = Prefix(@, s.nvars) \o Fill(n, UINT32_MAX),
                !.watch = Prefix(@, s.nliterals) \o Fill(2 * n, <<>>),
                !.occ = IF s.preprocess THEN @ \o Fill(2 * n, 0) ELSE @,
                !.heap = heap_add_vars(@, nv),
                !.nvars = nv,
                !.nliterals = 2 * nv]

nsat_solver_new_var(s) == nsat_solver_add_vars(s, 1)

(***************************************************************************)
(* Clause addition                                                         *)
(***************************************************************************)
RECURSIVE increase_occurrence_counts(_, _, _)
increase_occurrence_counts(s, lit, i) ==
  IF i > Len(lit) THEN s
  ELSE increase_occurrence_counts(
         [s EXCEPT !.occ = Upd(@, lit[i], At(s.occ, lit[i]) + 1)], lit, i + 1)

\* variant of add_empty_clause: the flag is set, the status is not
flag_empty_clause(s) == [s EXCEPT !.has_empty_clause = TRUE]

add_empty_clause(s) ==
  [s EXCEPT !.has_empty_clause = TRUE, !.status = STAT_UNSAT]

add_unit_clause(s, l) == [assign_literal(s, l) EXCEPT !.units = @ + 1]

add_binary_clause(s, l0, l1) ==
  add_literal_watch(add_literal_watch([s EXCEPT !.binaries = @ + 1], l0, l1), l1, l0)

add_large_clause(s, n, lit) ==
  LET cidx == s.pool.size
      s1 == [s EXCEPT !.pool = clause_pool_add_problem_clause(@, n, lit)]
  IN  IF s.preprocess
      THEN LET s2 == add_clause_all_watch(s1, lit, 1, cidx)
           IN  [s2 EXCEPT !.pool = set_clause_signature(@, cidx)]
      ELSE add_clause_watch(add_clause_watch(s1, lit[1], cidx, lit[2]),
                            lit[2], cidx, lit[1])

\* variant of remove_duplicate_literals: complementary literals are not seen
RECURSIVE keep_complementary_literals(_, _, _)
keep_complementary_literals(lit, i, out) ==
  IF i > Len(lit) THEN [taut |-> FALSE, lit |-> out]
  ELSE IF lit[i] = out[Len(out)] THEN keep_complementary_literals(lit, i + 1, out)
  ELSE keep_complementary_literals(lit, i + 1, Append(out, lit[i]))

\* first loop of nsat_solver_simplify_and_add_clause on the sorted array:
\* duplicates are dropped; taut when the array holds l and not(l)
RECURSIVE remove_duplicate_literals(_, _, _)
remove_duplicate_literals(lit, i, out) ==
  IF i > Len(lit) THEN [taut |-> FALSE, lit |-> out]
  ELSE IF lit[i] = out[Len(out)] THEN remove_duplicate_literals(lit, i + 1, out)
  ELSE IF lit[i] = not(out[Len(out)]) THEN [taut |-> TRUE, lit |-> out]
  ELSE remove_duplicate_literals(lit, i + 1, Append(out, lit[i]))

\* variant of remove_false_literals: false literals are kept
RECURSIVE keep_false_literals(_, _, _, _)
keep_false_literals(s, lit, i, out) ==
  IF i > Len(lit) THEN [true |-> FALSE, lit |-> out]
  ELSE IF lit_value(s, lit[i]) = VAL_TRUE THEN [true |-> TRUE, lit |-> out]
  ELSE keep_false_literals(s, lit, i + 1, Append(out, lit[i]))

\* second loop: false literals are dropped; true when a literal is true
RECURSIVE remove_false_literals(_, _, _, _)
remove_false_literals(s, lit, i, out) ==
  IF i > Len(lit) THEN [true |-> FALSE, lit |-> out]
  ELSE IF lit_value(s, lit[i]) = VAL_FALSE
       THEN remove_false_literals(s, lit, i + 1, out)
  ELSE IF lit_value(s, lit[i]) \in {VAL_UNDEF_FALSE, VAL_UNDEF_TRUE}
       THEN remove_false_literals(s, lit, i + 1, Append(out, lit[i]))
  ELSE [true |-> TRUE, lit |-> out]

nsat_solver_simplify_and_add_clause(s, lit) ==
  IF Len(lit) = 0 THEN add_empty_clause(s)
  ELSE
    LET a == int_array_sort(lit)
        d == remove_duplicate_literals(a, 2, <<a[1]>>)
        f == remove_false_literals(s, d.lit, 1, <<>>)
        n == Len(f.lit)
        s1 == IF n = 0 THEN add_empty_clause(s)
              ELSE IF n = 1 THEN add_unit_clause(s, f.lit[1])
              ELSE IF n = 2 /\ ~s.preprocess
                   THEN add_binary_clause(s, f.lit[1], f.lit[2])
              ELSE add_large_clause(s, n, f.lit)
    IN  IF d.taut \/ f.true THEN s
        ELSE IF s.preprocess THEN increase_occurrence_counts(s1, f.lit, 1)
        ELSE s1

(***************************************************************************)
(* Activity heap: heap[1 .. heap_last] is a binary heap of variables,      *)
(* heap_index[x] is the position of x in it or -1.  The model drops the    *)
(* dead cells heap[heap_last+1 ...].                                       *)
(***************************************************************************)
\* variant of update_up: x is stored at position i, whatever is above it
update_in_place(heap, x, i) ==
  [heap EXCEPT !.heap = Upd(@, i, x), !.heap_index = Upd(@, x, i)]

RECURSIVE update_up(_, _, _)
update_up(heap, x, i) ==
  LET j == i \div 2
      y == At(heap.heap, j)
  IN  IF At(heap.activity, y) >= At(heap.activity, x)
      THEN [heap EXCEPT !.heap = Upd(@, i, x), !.heap_index = Upd(@, x, i)]
      ELSE update_up([heap EXCEPT !.heap = Upd(@, i, y),
                                  !.heap_index = Upd(@, y, i)], x, j)

\* the loop of update_down: z is the last element, i the free position
RECURSIVE update_down_from(_, _, _, _, _)
update_down_from(heap, z, i, j, last) ==
  IF j < last
  THEN LET jj == IF j + 1 < last
                    /\ At(heap.activity, At(heap.heap, j + 1))
                         > At(heap.activity, At(heap.heap, j))
                 THEN j + 1 ELSE j
           x == At(heap.heap, jj)
       IN  IF At(heap.activity, z) >= At(heap.activity, x)
           THEN [heap EXCEPT !.heap = Upd(@, i, z), !.heap_index = Upd(@, z, i)]
           ELSE update_down_from([heap EXCEPT !.heap = Upd(@, i, x),
                                              !.heap_index = Upd(@, x, i)],
                                 z, jj, 2 * jj, last)
  ELSE [heap EXCEPT !.heap = Upd(@, i, z), !.heap_index = Upd(@, z, i)]

update_down(heap) ==
  LET last == heap.heap_last
  IN  IF last <= 1
      THEN [heap EXCEPT !.heap_last = last - 1, !.heap = <<0>>]
      ELSE LET h == update_down_from([heap EXCEPT !.heap_last = last - 1],
                                     At(heap.heap, last), 1, 2, last)
           IN  [h EXCEPT !.heap = Prefix(@, last)]

heap_insert(heap, x) ==
  IF At(heap.heap_index, x) < 0
  THEN update_up([heap EXCEPT !.heap_last = @ + 1, !.heap = Append(@, x)],
                 x, heap.heap_last + 1)
  ELSE heap

heap_is_empty(heap) == heap.heap_last = 0

\* heap_get_top returns heap[1] and leaves the heap without it
heap_remove_top(heap) ==
  update_down([heap EXCEPT !.heap_index = Upd(@, At(heap.heap, 1), -1)])

\* VAR_ACTIVITY_THRESHOLD (1e100) is out of reach of the runs of the model:
\* rescale_var_activities never runs
increase_var_activity(heap, x) ==
  LET h == [heap EXCEPT !.activity = Upd(@, x, At(heap.activity, x) + heap.act_increment)]
  IN  IF At(h.heap_index, x) >= 0 THEN update_up(h, x, At(h.heap_index, x)) ELSE h

decay_var_activities(heap) == [heap EXCEPT !.act_increment = var_decay(@)]

RECURSIVE cleanup_heap(_)
cleanup_heap(s) ==
  IF heap_is_empty(s.heap) THEN s
  ELSE LET x == At(s.heap.heap, 1)
       IN  IF var_is_unassigned(s, x) /\ At(s.ante_tag, x) < ATAG_PURE THEN s
           ELSE cleanup_heap([s EXCEPT !.heap = heap_remove_top(@)])

(***************************************************************************)
(* Boolean propagation                                                     *)
(***************************************************************************)
\* variant of record_binary_conflict: the conflict is counted, not recorded
count_binary_conflict(s, l0, l1) == [s EXCEPT !.stats.conflicts = @ + 1]

record_binary_conflict(s, l0, l1) ==
  [s EXCEPT !.conflict_tag = CTAG_BINARY,
            !.conflict_buffer = <<l0, l1>>,
            !.stats.conflicts = @ + 1]

\* variant of record_clause_conflict: the conflict is counted, not recorded
count_clause_conflict(s, cidx) == [s EXCEPT !.stats.conflicts = @ + 1]

record_clause_conflict(s, cidx) ==
  [s EXCEPT !.conflict_tag = CTAG_CLAUSE,
            !.conflict_index = cidx,
            !.stats.conflicts = @ + 1]

\* first t in t0 .. len-1 with lit[t] not false, or len
RECURSIVE find_new_watch(_, _, _, _)
find_new_watch(s, k, t, len) ==
  IF t >= len THEN len
  ELSE IF ~lit_is_false(s, At(s.pool.data, k + 2 + t)) THEN t
  ELSE find_new_watch(s, k, t + 1, len)

set_clause_lit(s, k, t, l) == [s EXCEPT !.pool.data = Upd(@, k + 2 + t, l)]

\* the loop of propagate_from_literal: w is watch[l0] on entry, i the next
\* element to read, out the elements kept so far (the C code writes them in
\* place at index j)
RECURSIVE propagate_watch(_, _, _, _, _)
propagate_watch(s, l0, w, i, out) ==
  IF i >= Len(w) THEN [s EXCEPT !.watch = Upd(@, l0, out)]
  ELSE
    LET k == At(w, i)
    IN  IF idx_is_literal(k)
        THEN LET l == idx2lit(k)
                 vl == lit_value(s, l)
             IN  IF vl = VAL_TRUE
                 THEN propagate_watch(s, l0, w, i + 1, Append(out, k))
                 ELSE IF vl = VAL_FALSE
                 THEN [record_binary_conflict(s, l0, l) EXCEPT
                         !.watch = Upd(@, l0, Append(out, k) \o SubSeq(w, i + 2, Len(w)))]
                 ELSE propagate_watch(binary_clause_propagation(s, l, l0),
                                      l0, w, i + 1, Append(out, k))
        ELSE LET b == At(w, i + 1)
                 len == At(s.pool.data, k)
                 l == other_watched_literal_of_clause(s.pool, k, l0)
                 vl == lit_value(s, l)
                 s1 == set_clause_lit(set_clause_lit(s, k, 0, l), k, 1, l0)
                 t == find_new_watch(s, k, 2, len)
             IN  IF lit_is_true(s, b)
                 THEN propagate_watch(s, l0, w, i + 2, out \o <<k, b>>)
                 ELSE IF vl = VAL_TRUE
                 THEN propagate_watch(s, l0, w, i + 2, out \o <<k, l>>)
                 ELSE IF t < len
                 THEN LET l1 == At(s.pool.data, k + 2 + t)
                          s2 == set_clause_lit(set_clause_lit(s1, k, 1, l1), k, t, l0)
                      IN  propagate_watch(add_clause_watch(s2, l1, k, l),
                                          l0, w, i + 2, out)
                 ELSE IF vl = VAL_FALSE
                 THEN [record_clause_conflict(s1, k) EXCEPT
                         !.watch = Upd(@, l0, out \o SubSeq(w, i + 1, Len(w)))]
                 ELSE propagate_watch(clause_propagation(s1, l, k),
                                      l0, w, i + 2, out \o <<k, b>>)

\* variant of propagate_from_literal: on a conflict the watch vector of l0
\* is left empty
empty_watch_on_conflict(s1, l0) ==
  IF s1.conflict_tag # CTAG_NONE THEN [s1 EXCEPT !.watch = Upd(@, l0, <<>>)] ELSE s1

propagate_and_forget(s, l0) ==
  IF At(s.watch, l0) = <<>> THEN s
  ELSE empty_watch_on_conflict(propagate_watch(s, l0, At(s.watch, l0), 0, <<>>), l0)

propagate_from_literal(s, l0) ==
  IF At(s.watch, l0) = <<>> THEN s
  ELSE propagate_watch(s, l0, At(s.watch, l0), 0, <<>>)

\* one round of the loop of nsat_boolean_propagation: s1 is the solver after
\* the visit of the watch vector of the i-th literal of the stack
RECURSIVE propagation_loop(_, _)
propagation_step(s1, i) ==
  IF s1.conflict_tag # CTAG_NONE THEN s1 ELSE propagation_loop(s1, i + 1)

propagation_loop(s, i) ==
  IF i >= s.stack.top THEN [s EXCEPT !.stack.prop_ptr = i]
  ELSE propagation_step(propagate_from_literal(s, not(At(s.stack.lit, i))), i)

nsat_boolean_propagation(s) == propagation_loop(s, s.stack.prop_ptr)

\* the test that follows nsat_boolean_propagation in level0_propagation
level0_conflict_check(s1) ==
  IF s1.conflict_tag # CTAG_NONE THEN add_empty_clause(s1) ELSE s1

level0_propagation(s) == level0_conflict_check(nsat_boolean_propagation(s))

(***************************************************************************)
(* Backtracking and restarts                                               *)
(***************************************************************************)
\* the loop of backtrack: unassign stack.lit[i-1] down to stack.lit[d]
RECURSIVE backtrack_loop(_, _, _)
backtrack_loop(s, i, d) ==
  IF i <= d THEN s
  ELSE LET x == var_of(At(s.stack.lit, i - 1))
           s1 == [s EXCEPT
                    !.value = Upd(Upd(@, pos_lit(x), unassigned_val(At(s.value, pos_lit(x)))),
                                  neg_lit(x), unassigned_val(At(s.value, neg_lit(x)))),
                    !.heap = heap_insert(@, x)]
       IN  backtrack_loop(s1, i - 1, d)

\* variant of backtrack: the assignments of level back_level + 1 are kept
backtrack_above(s, back_level) ==
  LET d == IF back_level + 1 < s.decision_level
           THEN At(s.stack.level_index, back_level + 2) ELSE s.stack.top
      s1 == backtrack_loop(s, s.stack.top, d)
  IN  [s1 EXCEPT !.stack.lit = Prefix(@, d),
                 !.stack.top = d,
                 !.stack.prop_ptr = d,
                 !.stack.level_index = Prefix(@, back_level + 1),
                 !.stash.top = At(s.stash.level, back_level + 1),
                 !.stash.data = Prefix(@, At(s.stash.level, back_level + 1)),
                 !.stash.level = Prefix(@, back_level + 1),
                 !.decision_level = back_level]

backtrack(s, back_level) ==
  LET d == At(s.stack.level_index, back_level + 1)
      s1 == backtrack_loop(s, s.stack.top, d)
  IN  [s1 EXCEPT !.stack.lit = Prefix(@, d),
                 !.stack.top = d,
                 !.stack.prop_ptr = d,
                 !.stack.level_index = Prefix(@, back_level + 1),
                 !.stash.top = At(s.stash.level, back_level + 1),
                 !.stash.data = Prefix(@, At(s.stash.level, back_level + 1)),
                 !.stash.level = Prefix(@, back_level + 1),
                 !.decision_level = back_level]

level_has_lower_activity(s, ax, k) ==
  LET i == At(s.stack.level_index, k)
      n == IF k < s.decision_level THEN At(s.stack.level_index, k + 1)
           ELSE s.stack.top
  IN  \A t \in i..(n - 1) : At(s.heap.activity, var_of(At(s.stack.lit, t))) < ax

\* first level i in 1 .. n whose variables all have activity below ax, or 0
RECURSIVE first_lower_level(_, _, _)
first_lower_level(s, ax, i) ==
  IF i > s.decision_level THEN 0
  ELSE IF level_has_lower_activity(s, ax, i) THEN i
  ELSE first_lower_level(s, ax, i + 1)

\* partial_restart after cleanup_heap
partial_restart_to_level(s1, i) ==
  IF i > 0 THEN backtrack(s1, i - 1) ELSE s1

partial_restart_clean(s1) ==
  IF heap_is_empty(s1.heap) THEN backtrack(s1, 0)
  ELSE partial_restart_to_level(
         s1, first_lower_level(s1, At(s1.heap.activity, At(s1.heap.heap, 1)), 1))

partial_restart(s) ==
  IF s.decision_level > 0 THEN partial_restart_clean(cleanup_heap(s)) ELSE s

full_restart(s) == IF s.decision_level > 0 THEN backtrack(s, 0) ELSE s

(***************************************************************************)
(* Pseudo-random numbers: x' = x * PRNG_MULTIPLIER + PRNG_CONSTANT mod 2^32 *)
(***************************************************************************)
prng_next(x) ==
  LET p0 == x[2] * PRNG_MULTIPLIER[2]
      hi0 == (((x[1] * PRNG_MULTIPLIER[2]) % HALF)
               + ((x[2] * PRNG_MULTIPLIER[1]) % HALF) + (p0 \div HALF)) % HALF
      lo1 == (p0 % HALF) + PRNG_CONSTANT[2]
  IN  << (hi0 + PRNG_CONSTANT[1] + (lo1 \div HALF)) % HALF, lo1 % HALF >>

\* random_uint32 returns the current word and steps the generator
random_uint32(s) == [val |-> s.prng, s |-> [s EXCEPT !.prng = prng_next(@)]]

\* x & VAR_RANDOM_MASK: the 24 low-order bits
random_mask(x) == ((x[1] % 256) * HALF) + x[2]

\* (x >> 8) % n
random_uint(s, n) ==
  LET r == random_uint32(s)
  IN  [val |-> ((r.val[1] * 256) + (r.val[2] \div 256)) % n, s |-> r.s]

(***************************************************************************)
(* Exponential moving averages: 64-bit unsigned words are pairs <<hi, lo>> *)
(* of value hi * 2^24 + lo                                                 *)
(***************************************************************************)
EMA_BASE == 16777216

ema_shr(v, k) ==
  << v[1] \div pow2(k),
     ((v[1] % pow2(k)) * pow2(24 - k)) + (v[2] \div pow2(k)) >>

ema_add(a, b) ==
  << a[1] + b[1] + ((a[2] + b[2]) \div EMA_BASE), (a[2] + b[2]) % EMA_BASE >>

ema_sub(a, b) ==
  IF a[2] >= b[2] THEN << a[1] - b[1], a[2] - b[2] >>
  ELSE << a[1] - b[1] - 1, a[2] + EMA_BASE - b[2] >>

ema_ge(a, b) == a[1] > b[1] \/ (a[1] = b[1] /\ a[2] >= b[2])

\* ((uint64_t) x) << 16 and ((uint64_t) x) << 27
ema_shl16(x) == << x \div 256, (x % 256) * HALF >>

ema_shl27(x) == << x * 8, 0 >>

\* (uint32_t) (v >> 32)
ema_hi32(v) == v[1] \div 256

update_emas(s, x) ==
  [s EXCEPT !.slow_ema = ema_add(ema_sub(@, ema_shr(@, 16)), ema_shl16(x)),
            !.fast_ema = ema_add(ema_sub(@, ema_shr(@, 5)), ema_shl27(x))]

update_max_depth(s) ==
  IF s.stack.top > s.max_depth
  THEN [s EXCEPT !.max_depth = s.stack.top,
                 !.max_depth_conflicts = s.stats.conflicts]
  ELSE s

\* level_ema is decreased twice
update_level(s) ==
  LET e1 == ema_sub(s.level_ema, ema_shr(s.level_ema, 16))
      e2 == ema_sub(e1, ema_shr(e1, 16))
  IN  [s EXCEPT !.level_ema = ema_add(e2, ema_shl16(s.decision_level))]

(***************************************************************************)
(* Learned clauses                                                         *)
(***************************************************************************)
\* CLAUSE_ACTIVITY_THRESHOLD (1e20) is out of reach: no rescaling
increase_clause_activity(s, cidx) ==
  [s EXCEPT !.pool.data = Upd(@, cidx + 1, At(s.pool.data, cidx + 1) + s.cla_inc)]

decay_clause_activities(s) == [s EXCEPT !.cla_inc = clause_decay(@)]

add_learned_clause(s, n, lit) ==
  LET cidx == s.pool.size
      s1 == [s EXCEPT !.pool = clause_pool_add_learned_clause(@, n, lit)]
      s2 == [s1 EXCEPT !.pool.data = Upd(@, cidx + 1, s.cla_inc)]
  IN  add_clause_watch(add_clause_watch(s2, lit[1], cidx, lit[2]),
                       lit[2], cidx, lit[1])

d_level(s, l) == At(s.level, var_of(l))

\* number of distinct decision levels of the literals
clause_lbd(s, n, lit) == Cardinality({d_level(s, lit[i]) : i \in 1..n})

\* the loop stops as soon as more than k levels are seen
clause_lbd_le(s, n, lit, k) == clause_lbd(s, n, lit) <= k

(***************************************************************************)
(* Conflict analysis.  The state of the analysis is a record a:            *)
(*   a.s       the solver (activities change)                              *)
(*   a.marked  the variables whose mark bit (0x80 of ante_tag) is set      *)
(*   a.buffer  solver->buffer, slot 0 reserved for the implied literal     *)
(*   a.n       the count returned by process_literal, summed (unresolved)  *)
(***************************************************************************)
\* variant of process_literal: a literal of the conflict level is counted
\* and also added to the buffer
process_literal_into_buffer(a, l) ==
  IF var_of(l) \notin a.marked /\ At(a.s.level, var_of(l)) > 0
  THEN [a EXCEPT !.marked = @ \cup {var_of(l)},
                 !.s.heap = increase_var_activity(
                              increase_var_activity(@, var_of(l)), var_of(l)),
                 !.n = IF At(a.s.level, var_of(l)) = a.s.decision_level
                       THEN @ + 1 ELSE @,
                 !.buffer = Append(@, l)]
  ELSE a

process_literal(a, l) ==
  LET x == var_of(l)
  IN  IF x \notin a.marked /\ At(a.s.level, x) > 0
      THEN LET a1 == [a EXCEPT !.marked = @ \cup {x},
                              !.s.heap = increase_var_activity(
                                           increase_var_activity(@, x), x)]
           IN  IF At(a.s.level, x) = a.s.decision_level
               THEN [a1 EXCEPT !.n = @ + 1]
               ELSE [a1 EXCEPT !.buffer = Append(@, l)]
      ELSE a

RECURSIVE process_literals(_, _, _, _)
process_literals(a, cidx, i, n) ==
  IF i >= n THEN a
  ELSE process_literals(process_literal(a, At(a.s.pool.data, cidx + 2 + i)),
                        cidx, i + 1, n)

process_clause(a, cidx, i0) ==
  LET a1 == IF is_learned_clause_idx(a.s.pool, cidx)
            THEN [a EXCEPT !.s = increase_clause_activity(@, cidx)]
            ELSE a
  IN  process_literals(a1, cidx, i0, clause_length(a.s.pool, cidx))

\* the for (;;) loop of analyze_conflict, j is the index after the decrement
RECURSIVE analyze_loop(_, _)
analyze_loop(a, j) ==
  LET b == At(a.s.stack.lit, j)
      x == var_of(b)
  IN  IF x \in a.marked
      THEN IF a.n = 1
           THEN [a EXCEPT !.buffer = Upd(@, 0, not(b))]
           ELSE LET a1 == [a EXCEPT !.n = @ - 1, !.marked = @ \ {x}]
                    a2 == IF At(a.s.ante_tag, x) = ATAG_BINARY
                          THEN process_literal(a1, At(a.s.ante_data, x))
                          ELSE IF At(a.s.ante_tag, x) = ATAG_CLAUSE
                          THEN process_clause(a1, At(a.s.ante_data, x), 1)
                          ELSE a1   \* ATAG_STACKED: no clause is ever stacked
                IN  analyze_loop(a2, j - 1)
      ELSE analyze_loop(a, j - 1)

analyze_conflict(s) ==
  LET a0 == [s |-> s, marked |-> {}, buffer |-> <<0>>, n |-> 0]
      a1 == IF s.conflict_tag = CTAG_BINARY
            THEN process_literal(process_literal(a0, s.conflict_buffer[1]),
                                 s.conflict_buffer[2])
            ELSE process_clause(a0, s.conflict_index, 0)
  IN  analyze_loop(a1, s.stack.top - 1)

(***************************************************************************)
(* Minimisation of the learned clause                                      *)
(***************************************************************************)
NOT_SEEN == 0
IMPLIED == 1
NOT_IMPLIED == 2

tag_map_read(map, x) == IF x \in DOMAIN map THEN map[x] ELSE NOT_SEEN

tag_map_write(map, x, t) == [y \in DOMAIN map \cup {x} |-> IF y = x THEN t ELSE map[y]]

num_predecessors(s, x) ==
  IF At(s.ante_tag, x) = ATAG_BINARY THEN 1
  ELSE IF At(s.ante_tag, x) = ATAG_CLAUSE
  THEN clause_length(s.pool, At(s.ante_data, x)) - 1
  ELSE 0   \* ATAG_STACKED: no clause is ever stacked

predecessor(s, x, i) ==
  IF At(s.ante_tag, x) = ATAG_BINARY THEN var_of(At(s.ante_data, x))
  ELSE var_of(At(s.pool.data, At(s.ante_data, x) + 2 + i + 1))

var_is_implied(s, marked, map, x) ==
  x \in marked \/ At(s.ante_tag, x) = ATAG_UNIT \/ tag_map_read(map, x) = IMPLIED

var_is_not_implied(s, map, x) ==
  At(s.ante_tag, x) = ATAG_DECISION \/ tag_map_read(map, x) = NOT_IMPLIED

\* The depth-first exploration of implied_by_marked_literals from vertex x
\* (x neither implied nor not implied), starting at predecessor i.  On
\* failure every vertex on the C stack is tagged NOT_IMPLIED: here each
\* caller tags its own vertex.  Result: [ok, map].
RECURSIVE explore_vertex(_, _, _, _, _)
explore_vertex(s, marked, map, x, i) ==
  IF i = num_predecessors(s, x)
  THEN [ok |-> TRUE, map |-> tag_map_write(map, x, IMPLIED)]
  ELSE LET y == predecessor(s, x, i)
       IN  IF var_is_implied(s, marked, map, y)
           THEN explore_vertex(s, marked, map, x, i + 1)
           ELSE IF var_is_not_implied(s, map, y)
           THEN [ok |-> FALSE, map |-> tag_map_write(map, x, NOT_IMPLIED)]
           ELSE LET r == explore_vertex(s, marked, map, y, 0)
                IN  IF r.ok THEN explore_vertex(s, marked, r.map, x, i + 1)
                    ELSE [ok |-> FALSE, map |-> tag_map_write(r.map, x, NOT_IMPLIED)]

\* variant of implied_by_marked_literals: every literal is taken as implied
implied_without_exploration(s, marked, map, l) == [ok |-> TRUE, map |-> map]

implied_by_marked_literals(s, marked, map, l) ==
  LET x == var_of(l)
  IN  IF var_is_implied(s, marked, map, x) THEN [ok |-> TRUE, map |-> map]
      ELSE IF var_is_not_implied(s, map, x) THEN [ok |-> FALSE, map |-> map]
      ELSE explore_vertex(s, marked, map, x, 0)

\* a[i .. n-1], a the literals of clause cidx
RECURSIVE array_implied_by_marked_literals(_, _, _, _, _, _)
array_implied_by_marked_literals(s, marked, map, cidx, i, n) ==
  IF i >= n THEN [ok |-> TRUE, map |-> map]
  ELSE LET r == implied_by_marked_literals(s, marked, map,
                                           At(s.pool.data, cidx + 2 + i))
       IN  IF r.ok
           THEN array_implied_by_marked_literals(s, marked, r.map, cidx, i + 1, n)
           ELSE r

literal_is_redundant(s, marked, map, l) ==
  LET x == var_of(l)
      atag == At(s.ante_tag, x)
  IN  IF atag = ATAG_BINARY
      THEN implied_by_marked_literals(s, marked, map, At(s.ante_data, x))
      ELSE IF atag = ATAG_CLAUSE
      THEN array_implied_by_marked_literals(s, marked, map, At(s.ante_data, x), 1,
                                            clause_length(s.pool, At(s.ante_data, x)))
      ELSE [ok |-> FALSE, map |-> map]

\* the literals of buffer[i ..] that are kept, in order
RECURSIVE simplify_learned_loop(_, _, _, _, _)
simplify_learned_loop(s, marked, map, buffer, i) ==
  IF i > Len(buffer) THEN <<>>
  ELSE LET r == literal_is_redundant(s, marked, map, buffer[i])
           rest == simplify_learned_loop(s, marked, r.map, buffer, i + 1)
       IN  IF r.ok THEN rest ELSE <<buffer[i]>> \o rest

\* the learned clause after simplify_learned_clause: all marks are cleared
simplify_learned_clause(a) ==
  <<a.buffer[1]>> \o simplify_learned_loop(a.s, a.marked, << >>, a.buffer, 2)

\* index (from 1) of the first literal of highest level among b[i .. n],
\* j the best index so far
RECURSIVE max_level_index(_, _, _, _)
max_level_index(s, b, i, j) ==
  IF i > Len(b) THEN j
  ELSE IF d_level(s, b[i]) > d_level(s, b[j])
  THEN max_level_index(s, b, i + 1, i)
  ELSE max_level_index(s, b, i + 1, j)

\* variant of prepare_to_backtrack: the literals stay where they are
prepare_without_swap(s, b) ==
  IF Len(b) = 1 THEN [level |-> 0, buffer |-> b]
  ELSE [level |-> d_level(s, b[max_level_index(s, b, 3, 2)]), buffer |-> b]

\* prepare_to_backtrack: result [level, buffer]
prepare_to_backtrack(s, b) ==
  IF Len(b) = 1 THEN [level |-> 0, buffer |-> b]
  ELSE LET j == max_level_index(s, b, 3, 2)
       IN  [level |-> d_level(s, b[j]),
            buffer |-> [b EXCEPT ![2] = b[j], ![j] = b[2]]]

\* the end of resolve_conflict: the learned clause b is added to the solver
\* s2 reached after backtracking
install_learned_clause(s2, b) ==
  IF Len(b) >= 3
  THEN clause_propagation(add_learned_clause(s2, Len(b), b), b[1], s2.pool.size)
  ELSE IF Len(b) = 2
  THEN binary_clause_propagation(add_binary_clause(s2, b[1], b[2]), b[1], b[2])
  ELSE add_unit_clause(s2, b[1])

\* resolve_conflict from prepare_to_backtrack on: s0 is the solver after
\* the analysis, p the result of prepare_to_backtrack
backtrack_and_learn(s0, p) ==
  install_learned_clause(
    update_level(
      [backtrack(update_emas([s0 EXCEPT !.backtrack_level = p.level],
                             clause_lbd(s0, Len(p.buffer), p.buffer)),
                 p.level)
         EXCEPT !.conflict_tag = CTAG_NONE]),
    p.buffer)

minimize_and_learn(a) ==
  backtrack_and_learn(a.s, prepare_to_backtrack(a.s, simplify_learned_clause(a)))

resolve_conflict(s) == minimize_and_learn(analyze_conflict(s))

(***************************************************************************)
(* Garbage collection                                                      *)
(***************************************************************************)
\* variant of watch_vector_remove_clauses: every clause entry is removed
RECURSIVE watch_vector_remove_all_clauses(_, _)
watch_vector_remove_all_clauses(w, base_idx) ==
  IF w = <<>> THEN <<>>
  ELSE IF idx_is_literal(w[1])
  THEN <<w[1]>> \o watch_vector_remove_all_clauses(Tail(w), base_idx)
  ELSE watch_vector_remove_all_clauses(Tail(Tail(w)), base_idx)

RECURSIVE watch_vector_remove_clauses(_, _)
watch_vector_remove_clauses(w, base_idx) ==
  IF w = <<>> THEN <<>>
  ELSE IF idx_is_literal(w[1])
  THEN <<w[1]>> \o watch_vector_remove_clauses(Tail(w), base_idx)
  ELSE IF w[1] < base_idx
  THEN <<w[1], w[2]>> \o watch_vector_remove_clauses(Tail(Tail(w)), base_idx)
  ELSE watch_vector_remove_clauses(Tail(Tail(w)), base_idx)

prepare_watch_vectors(s, base_idx) ==
  [s EXCEPT !.watch = [i \in DOMAIN s.watch |->
                         watch_vector_remove_clauses(s.watch[i], base_idx)]]

RECURSIVE mark_antecedent_clauses_from(_, _, _)
mark_antecedent_clauses_from(s, base_idx, i) ==
  IF i >= s.stack.top THEN s
  ELSE LET x == var_of(At(s.stack.lit, i))
       IN  IF At(s.ante_tag, x) = ATAG_CLAUSE /\ At(s.ante_data, x) >= base_idx
           THEN mark_antecedent_clauses_from(
                  [s EXCEPT !.pool = mark_clause(@, At(s.ante_data, x))],
                  base_idx, i + 1)
           ELSE mark_antecedent_clauses_from(s, base_idx, i + 1)

mark_antecedent_clauses(s, base_idx) == mark_antecedent_clauses_from(s, base_idx, 0)

restore_clause_antecedent(s, cidx, new_idx) ==
  [s EXCEPT !.ante_data = Upd(@, var_of(first_literal_of_clause(s.pool, cidx)), new_idx)]

\* copies the n + 2 words of the clause, one at a time from the lowest
RECURSIVE clause_pool_move_words(_, _, _, _, _)
clause_pool_move_words(data, dst_idx, src_idx, i, n) ==
  IF i >= n + 2 THEN data
  ELSE clause_pool_move_words(Upd(data, dst_idx + i, At(data, src_idx + i)),
                              dst_idx, src_idx, i + 1, n)

clause_pool_move_clause(pool, dst_idx, src_idx, n) ==
  [pool EXCEPT !.data = clause_pool_move_words(@, dst_idx, src_idx, 0, n)]

\* one while loop of compact_clause_pool: result [s, i, cidx]
RECURSIVE compact_range(_, _, _, _)
compact_range(s, i, cidx, end) ==
  IF s.in_scan_loop \/ cidx >= end THEN [s |-> s, i |-> i, cidx |-> cidx]
  ELSE LET w == At(s.pool.data, cidx)
       IN  IF w = 0
           THEN LET n == padding_length(s.pool, cidx)
                IN  IF n = 0
                    THEN [s |-> [s EXCEPT !.in_scan_loop = TRUE], i |-> i, cidx |-> cidx]
                    ELSE compact_range([s EXCEPT !.pool.padding = @ - n],
                                       i, cidx + n, end)
           ELSE LET n == w % CLAUSE_MARK
                    s1 == IF w >= CLAUSE_MARK
                          THEN restore_clause_antecedent(
                                 [s EXCEPT !.pool.data = Upd(@, cidx, n)], cidx, i)
                          ELSE s
                    s2 == IF i < cidx
                          THEN [s1 EXCEPT !.pool = clause_pool_move_clause(@, i, cidx, n)]
                          ELSE s1
                IN  compact_range(s2, i + full_length(n), cidx + full_length(n), end)

\* compact_clause_pool after its two loops
compact_set_size(r2) ==
  IF r2.s.in_scan_loop THEN r2.s
  ELSE [r2.s EXCEPT !.pool.size = r2.i, !.pool.data = Prefix(@, r2.i)]

\* the second loop of compact_clause_pool, r1 the result of the first
compact_learned_part(r1) ==
  compact_set_size(
    compact_range(IF r1.i < r1.s.pool.learned
                  THEN [r1.s EXCEPT !.pool.learned = r1.i] ELSE r1.s,
                  r1.i, r1.cidx, r1.s.pool.size))

compact_clause_pool(s, cidx) ==
  compact_learned_part(compact_range(s, cidx, cidx, s.pool.learned))

RECURSIVE restore_watch_vectors(_, _)
restore_watch_vectors(s, cidx) ==
  IF cidx >= s.pool.size THEN s
  ELSE LET l0 == first_literal_of_clause(s.pool, cidx)
           l1 == second_literal_of_clause(s.pool, cidx)
       IN  restore_watch_vectors(
             add_clause_watch(add_clause_watch(s, l0, cidx, l1), l1, cidx, l0),
             clause_pool_next_clause(s.pool, cidx))

prepare_watch_vectors_unless(s1, base_index, watches_ready) ==
  IF watches_ready THEN s1 ELSE prepare_watch_vectors(s1, base_index)

restore_watch_vectors_after(s3, base_index) ==
  IF s3.in_scan_loop THEN s3 ELSE restore_watch_vectors(s3, base_index)

collect_garbage(s, base_index, watches_ready) ==
  restore_watch_vectors_after(
    compact_clause_pool(
      prepare_watch_vectors_unless(mark_antecedent_clauses(s, base_index),
                                   base_index, watches_ready),
      base_index),
    base_index)

(***************************************************************************)
(* Deletion of learned clauses                                             *)
(***************************************************************************)
\* variant of clause_is_locked: no clause is locked
never_locked(s, cidx) == FALSE

clause_is_locked(s, cidx) ==
  LET x0 == var_of(first_literal_of_clause(s.pool, cidx))
  IN  /\ At(s.ante_tag, x0) = ATAG_CLAUSE
      /\ At(s.ante_data, x0) = cidx
      /\ var_is_assigned(s, x0)

clause_is_precious(s, cidx) ==
  LET n == clause_length(s.pool, cidx)
  IN  n <= s.params.keep_lbd
      \/ clause_lbd_le(s, n, clause_literals(s.pool, cidx), s.params.keep_lbd)

RECURSIVE collect_learned_clauses_from(_, _)
collect_learned_clauses_from(s, cidx) ==
  IF cidx >= s.pool.size THEN <<>>
  ELSE (IF ~clause_is_locked(s, cidx) /\ ~clause_is_precious(s, cidx)
        THEN <<cidx>> ELSE <<>>)
       \o collect_learned_clauses_from(s, clause_pool_next_clause(s.pool, cidx))

collect_learned_clauses(s) ==
  collect_learned_clauses_from(s, clause_pool_first_learned_clause(s.pool))

less_active(s, c1, c2) ==
  LET act1 == clause_aux(s.pool, c1)
      act2 == clause_aux(s.pool, c2)
  IN  act1 < act2 \/ (act1 = act2 /\ c1 < c2)

\* less_active is a strict total order: the sorted array is unique
RECURSIVE insert_less_active(_, _, _)
insert_less_active(s, a, c) ==
  IF a = <<>> THEN <<c>>
  ELSE IF less_active(s, c, a[1]) THEN <<c>> \o a
  ELSE <<a[1]>> \o insert_less_active(s, Tail(a), c)

RECURSIVE sort_learned_clauses(_, _)
sort_learned_clauses(s, a) ==
  IF a = <<>> THEN <<>>
  ELSE insert_less_active(s, sort_learned_clauses(s, Tail(a)), a[1])

RECURSIVE delete_clauses(_, _, _)
delete_clauses(pool, a, n0) ==
  IF n0 = 0 THEN pool
  ELSE delete_clauses(clause_pool_delete_clause(pool, a[1]), Tail(a), n0 - 1)

\* the clauses a[0 .. n0-1] are deleted, n0 = reduce_fraction * (n/32)
delete_less_active(s, a) ==
  [s EXCEPT !.pool = delete_clauses(@, a, s.params.reduce_fraction * (Len(a) \div 32))]

nsat_reduce_learned_clause_set(s) ==
  collect_garbage(delete_less_active(s, sort_learned_clauses(s, collect_learned_clauses(s))),
                  s.pool.learned, FALSE)

(***************************************************************************)
(* Simplification of the clause database at level 0                        *)
(***************************************************************************)
RECURSIVE cleanup_watch_vector(_, _)
cleanup_watch_vector(s, w) ==
  IF w = <<>> THEN <<>>
  ELSE IF idx_is_clause(w[1]) THEN cleanup_watch_vector(s, Tail(Tail(w)))
  ELSE (IF lit_is_unassigned(s, idx2lit(w[1])) THEN <<w[1]>> ELSE <<>>)
       \o cleanup_watch_vector(s, Tail(w))

simplify_binary_clauses(s) ==
  [s EXCEPT !.watch = [i \in DOMAIN s.watch |->
                         IF i - 1 < 2 THEN s.watch[i]
                         ELSE IF lit_is_unassigned(s, i - 1)
                         THEN cleanup_watch_vector(s, s.watch[i])
                         ELSE <<>>]]

RECURSIVE num_literals_in_watch_vector(_)
num_literals_in_watch_vector(w) ==
  IF w = <<>> THEN 0
  ELSE IF idx_is_literal(w[1]) THEN 1 + num_literals_in_watch_vector(Tail(w))
  ELSE num_literals_in_watch_vector(Tail(Tail(w)))

RECURSIVE sum_binary_watches(_, _)
sum_binary_watches(s, i) ==
  IF i >= s.nliterals THEN 0
  ELSE num_literals_in_watch_vector(At(s.watch, i)) + sum_binary_watches(s, i + 1)

count_binary_clauses(s) == sum_binary_watches(s, 2) \div 2

\* variant of simplify_clause_loop: the scan stops at the first false
\* literal and keeps the literals after it
RECURSIVE simplify_clause_loop_once(_, _, _)
simplify_clause_loop_once(s, a, i) ==
  IF i > Len(a) THEN [true |-> FALSE, lit |-> <<>>]
  ELSE IF lit_value(s, a[i]) = VAL_TRUE THEN [true |-> TRUE, lit |-> <<>>]
  ELSE IF lit_value(s, a[i]) = VAL_FALSE
       THEN [true |-> FALSE, lit |-> SubSeq(a, i + 1, Len(a))]
  ELSE LET r == simplify_clause_loop_once(s, a, i + 1)
       IN  [r EXCEPT !.lit = <<a[i]>> \o @]

\* the loop of simplify_clause: [true, lit] where lit is the literals kept
RECURSIVE simplify_clause_loop(_, _, _)
simplify_clause_loop(s, a, i) ==
  IF i > Len(a) THEN [true |-> FALSE, lit |-> <<>>]
  ELSE IF lit_value(s, a[i]) = VAL_TRUE THEN [true |-> TRUE, lit |-> <<>>]
  ELSE LET r == simplify_clause_loop(s, a, i + 1)
       IN  IF lit_value(s, a[i]) = VAL_FALSE THEN r
           ELSE [r EXCEPT !.lit = <<a[i]>> \o @]

\* writes a[0 .. j-1] := lit in clause cidx
RECURSIVE write_clause_lits(_, _, _, _)
write_clause_lits(data, cidx, lit, j) ==
  IF j > Len(lit) THEN data
  ELSE write_clause_lits(Upd(data, cidx + 2 + (j - 1), lit[j]), cidx, lit, j + 1)

\* simplify_clause once the literals are scanned: r is the result of the
\* loop, n the length of the clause before; result [s, deleted]
simplify_clause_store(s, cidx, n, r) ==
  IF r.true
  THEN [s |-> [s EXCEPT !.pool = clause_pool_delete_clause(@, cidx)],
        deleted |-> TRUE]
  ELSE IF Len(r.lit) = 2
  THEN [s |-> [add_binary_clause(s, r.lit[1], r.lit[2]) EXCEPT
                 !.pool = clause_pool_delete_clause(
                            [s.pool EXCEPT !.data = write_clause_lits(@, cidx, r.lit, 1)],
                            cidx),
                 !.simplify_new_bins = @ + 1],
        deleted |-> TRUE]
  ELSE IF Len(r.lit) < n
  THEN [s |-> [s EXCEPT !.pool = clause_pool_shrink_clause(
                            [@ EXCEPT !.data = write_clause_lits(@, cidx, r.lit, 1)],
                            cidx, Len(r.lit))],
        deleted |-> FALSE]
  ELSE [s |-> [s EXCEPT !.pool.data = write_clause_lits(@, cidx, r.lit, 1)],
        deleted |-> FALSE]

\* simplify_clause: result [s, deleted]
simplify_clause(s, cidx) ==
  simplify_clause_store(s, cidx, clause_length(s.pool, cidx),
                        simplify_clause_loop(s, clause_literals(s.pool, cidx), 1))

RECURSIVE simplify_clauses_from(_, _)
simplify_clauses_next(s1, cidx) ==
  simplify_clauses_from(s1, clause_pool_next_clause(s1.pool, cidx))

simplify_clauses_from(s, cidx) ==
  IF cidx >= s.pool.size THEN s
  ELSE simplify_clauses_next(simplify_clause(s, cidx).s, cidx)

\* variant of remove_dead_antecedents: the antecedents are left as they are
keep_dead_antecedents(s) == s

remove_dead_antecedents(s) ==
  [s EXCEPT !.ante_tag =
     [x \in DOMAIN s.ante_tag |->
        IF \E i \in 1..s.stack.top : var_of(s.stack.lit[i]) = x - 1
        THEN ATAG_UNIT ELSE s.ante_tag[x]]]

\* the number of binary clauses is recomputed after the garbage collection
recount_binary_clauses(s3) ==
  IF s3.in_scan_loop THEN s3
  ELSE [s3 EXCEPT !.binaries = count_binary_clauses(s3)]

\* the end of simplify_clause_database and of apply_substitution
cleanup_after_simplify(s2) ==
  recount_binary_clauses(collect_garbage(remove_dead_antecedents(s2), 0, TRUE))

simplify_all_clauses(s1) ==
  simplify_clauses_from(s1, clause_pool_first_clause(s1.pool))

simplify_clause_database(s) ==
  cleanup_after_simplify(simplify_all_clauses(simplify_binary_clauses(s)))

(***************************************************************************)
(* Strongly connected components of the binary implication graph.          *)
(* The state t of the exploration has fields s (solver), visit, label,     *)
(* dfs (stack of <<vertex, index>>), vstack (vertex_stack) and k.          *)
(***************************************************************************)
lit_activity(s, l) == At(s.heap.activity, var_of(l))

\* variant of set_lit_subst: l1 is recorded as its own substitute
set_lit_subst_to_itself(s, l1, l2) ==
  [s EXCEPT !.stats.subst_vars = @ + 1,
            !.ante_tag = Upd(@, var_of(l1), ATAG_SUBST),
            !.ante_data = Upd(@, var_of(l1), l1)]

set_lit_subst(s, l1, l2) ==
  [s EXCEPT !.stats.subst_vars = @ + 1,
            !.ante_tag = Upd(@, var_of(l1), ATAG_SUBST),
            !.ante_data = Upd(@, var_of(l1), xor_sign(l2, is_neg(l1)))]

lit_subst(s, l) ==
  IF At(s.ante_tag, var_of(l)) = ATAG_SUBST
  THEN xor_sign(At(s.ante_data, var_of(l)), is_neg(l))
  ELSE l

\* the bound on the depth only guards the evaluation: a substitution chain
\* that cycles makes the C loop run for ever
RECURSIVE full_lit_subst(_, _)
full_lit_subst(s, l) ==
  IF At(s.ante_tag, var_of(l)) = ATAG_SUBST
  THEN full_lit_subst(s, xor_sign(At(s.ante_data, var_of(l)), is_neg(l)))
  ELSE l

full_var_subst(s, x) == full_lit_subst(s, pos_lit(x))

\* scans vertex_stack from index i - 1 down to the position of l
RECURSIVE scc_representative_from(_, _, _, _, _)
scc_representative_from(s, vstack, l, i, rep) ==
  LET l0 == vstack[i]
      better == IF s.preprocess THEN l0 < rep
                ELSE lit_activity(s, l0) > lit_activity(s, rep)
                     \/ (lit_activity(s, l0) = lit_activity(s, rep) /\ l0 < rep)
      rep1 == IF better THEN l0 ELSE rep
  IN  IF l0 = l THEN rep1
      ELSE scc_representative_from(s, vstack, l, i - 1, rep1)

\* variant of scc_representative: the root of the component
root_of_component(t, l) == l

scc_representative(t, l) ==
  scc_representative_from(t.s, t.vstack, l, Len(t.vstack), l)

\* the do-while loops of process_scc; subst is FALSE in the first branch
RECURSIVE process_scc_pop(_, _, _, _)
process_scc_pop(t, l, rep, subst) ==
  LET l0 == t.vstack[Len(t.vstack)]
      t1 == [t EXCEPT !.vstack = Prefix(@, Len(@) - 1),
                      !.label = Upd(@, l0, UINT32_MAX)]
  IN  IF subst /\ var_is_eliminated(t.s, var_of(l0))
      THEN [t1 EXCEPT !.s = add_empty_clause(@)]
      ELSE LET t2 == IF subst /\ l0 # rep
                     THEN [t1 EXCEPT !.s = set_lit_subst(@, l0, rep)]
                     ELSE t1
           IN  IF l0 = l THEN t2 ELSE process_scc_pop(t2, l, rep, subst)

process_scc(t, l) ==
  IF At(t.label, not(l)) = UINT32_MAX
  THEN process_scc_pop(t, l, l, FALSE)
  ELSE process_scc_pop(t, l, scc_representative(t, l), TRUE)

\* next_successor: [found, i, successor]
RECURSIVE next_successor_from(_, _, _, _)
next_successor_from(s, l0, w, k) ==
  IF k >= Len(w) THEN [found |-> FALSE, i |-> k, successor |-> 0]
  ELSE LET idx == At(w, k)
       IN  IF s.preprocess
           THEN IF clause_is_live(s.pool, idx) /\ clause_length(s.pool, idx) = 2
                THEN [found |-> TRUE, i |-> k + 1,
                      successor |-> other_watched_literal_of_clause(s.pool, idx, not(l0))]
                ELSE next_successor_from(s, l0, w, k + 1)
           ELSE IF idx_is_literal(idx)
                THEN [found |-> TRUE, i |-> k + 1, successor |-> idx2lit(idx)]
                ELSE IF clause_length(s.pool, idx) = 2
                THEN [found |-> TRUE, i |-> k + 2,
                      successor |-> other_watched_literal_of_clause(s.pool, idx, not(l0))]
                ELSE next_successor_from(s, l0, w, k + 2)

next_successor(s, l0, i) == next_successor_from(s, l0, At(s.watch, not(l0)), i)

\* the for (;;) loop of dfs_explore
RECURSIVE dfs_loop(_)
dfs_loop(t) ==
  LET e == t.dfs[Len(t.dfs)]
      x == e[1]
      r == next_successor(t.s, x, e[2])
      y == r.successor
  IN  IF r.found
      THEN LET t1 == [t EXCEPT !.dfs[Len(t.dfs)] = <<x, r.i>>]
           IN  IF At(t.visit, y) = 0
               THEN dfs_loop([t1 EXCEPT !.k = t.k + 1,
                                        !.visit = Upd(@, y, t.k + 1),
                                        !.label = Upd(@, y, t.k + 1),
                                        !.dfs = Append(@, <<y, 0>>),
                                        !.vstack = Append(@, y)])
               ELSE IF At(t.label, y) < At(t.label, x)
               THEN dfs_loop([t1 EXCEPT !.label = Upd(@, x, At(t.label, y))])
               ELSE dfs_loop(t1)
      ELSE LET t1 == IF At(t.label, x) = At(t.visit, x) THEN process_scc(t, x) ELSE t
           IN  IF t1.s.has_empty_clause THEN [t1 EXCEPT !.dfs = <<>>]
               ELSE IF Len(t1.dfs) = 1 THEN [t1 EXCEPT !.dfs = <<>>]
               ELSE LET z == t1.dfs[Len(t1.dfs) - 1][1]
                        t2 == [t1 EXCEPT !.dfs = Prefix(@, Len(@) - 1)]
                    IN  IF At(t1.label, x) < At(t1.label, z)
                        THEN dfs_loop([t2 EXCEPT !.label = Upd(@, z, At(t1.label, x))])
                        ELSE dfs_loop(t2)

dfs_explore(t, l) ==
  dfs_loop([t EXCEPT !.k = 1,
                     !.visit = Upd(@, l, 1),
                     !.label = Upd(@, l, 1),
                     !.dfs = << <<l, 0>> >>,
                     !.vstack = Append(@, l)])

RECURSIVE compute_sccs_from(_, _)
compute_sccs_from(t, i) ==
  IF i >= t.s.nliterals THEN t.s
  ELSE IF lit_is_active(t.s, i) /\ At(t.label, i) = 0
  THEN LET t1 == dfs_explore(t, i)
       IN  IF t1.s.has_empty_clause THEN t1.s ELSE compute_sccs_from(t1, i + 1)
  ELSE compute_sccs_from(t, i + 1)

compute_sccs(s) ==
  compute_sccs_from([s |-> s, visit |-> Fill(s.nliterals, 0),
                     label |-> Fill(s.nliterals, 0),
                     dfs |-> <<>>, vstack |-> <<>>, k |-> 0], 2)

(***************************************************************************)
(* Substitution in search mode                                             *)
(***************************************************************************)
\* The loop of subst_and_simplify_clause.  The C code marks each literal it
\* keeps as false (mark_false_lit) so that a second occurrence is dropped and
\* a complementary occurrence makes the clause true: kept is the set of the
\* literals marked so far.  Result [true, lit].
RECURSIVE subst_clause_loop(_, _, _, _)
subst_clause_loop(s, a, i, kept) ==
  IF i > Len(a) THEN [true |-> FALSE, lit |-> <<>>]
  ELSE LET l == lit_subst(s, a[i])
           v == IF l \in kept THEN VAL_FALSE
                ELSE IF not(l) \in kept THEN VAL_TRUE
                ELSE lit_value(s, l)
       IN  IF v = VAL_TRUE THEN [true |-> TRUE, lit |-> <<>>]
           ELSE IF v = VAL_FALSE THEN subst_clause_loop(s, a, i + 1, kept)
           ELSE LET r == subst_clause_loop(s, a, i + 1, kept \cup {l})
                IN  [r EXCEPT !.lit = <<l>> \o @]

\* the clause cidx is deleted once it is replaced by an empty, unit or
\* binary clause
delete_replaced_clause(s2, cidx) ==
  [s2 EXCEPT !.pool = clause_pool_delete_clause(@, cidx)]

\* subst_and_simplify_clause once the literals are scanned: s1 is the
\* solver with the literals kept stored in the clause, r the result of the
\* loop, n the length of the clause before
subst_clause_store(s, s1, cidx, n, r) ==
  IF r.true
  THEN [s EXCEPT !.pool = clause_pool_delete_clause(@, cidx)]
  ELSE IF Len(r.lit) = 0
  THEN delete_replaced_clause(add_empty_clause(s1), cidx)
  ELSE IF Len(r.lit) = 1
  THEN delete_replaced_clause([add_unit_clause(s1, r.lit[1]) EXCEPT
                                 !.simplify_new_units = @ + 1], cidx)
  ELSE IF Len(r.lit) = 2
  THEN delete_replaced_clause([add_binary_clause(s1, r.lit[1], r.lit[2]) EXCEPT
                                 !.simplify_new_bins = @ + 1], cidx)
  ELSE IF Len(r.lit) < n
  THEN [s1 EXCEPT !.pool = clause_pool_shrink_clause(@, cidx, Len(r.lit))]
  ELSE s1

subst_clause_write(s, cidx, n, r) ==
  subst_clause_store(s, [s EXCEPT !.pool.data = write_clause_lits(@, cidx, r.lit, 1)],
                     cidx, n, r)

\* subst_and_simplify_clause: the solver after the call
subst_and_simplify_clause(s, cidx) ==
  subst_clause_write(s, cidx, clause_length(s.pool, cidx),
                     subst_clause_loop(s, clause_literals(s.pool, cidx), 1, {}))

\* the two literals after substitution, without those that are false;
\* [true, lit]
RECURSIVE subst_binary_loop(_, _, _)
subst_binary_loop(s, a, i) ==
  IF i > Len(a) THEN [true |-> FALSE, lit |-> <<>>]
  ELSE LET l == lit_subst(s, a[i])
           v == lit_value(s, l)
       IN  IF v = VAL_TRUE THEN [true |-> TRUE, lit |-> <<>>]
           ELSE LET r == subst_binary_loop(s, a, i + 1)
                IN  IF v = VAL_FALSE THEN r ELSE [r EXCEPT !.lit = <<l>> \o @]

subst_binary_store(s, r) ==
  IF r.true THEN s
  ELSE IF Len(r.lit) = 0 THEN add_empty_clause(s)
  ELSE IF Len(r.lit) = 1 THEN add_unit_clause(s, r.lit[1])
  ELSE IF r.lit[1] = r.lit[2] THEN add_unit_clause(s, r.lit[1])
  ELSE IF r.lit[1] # not(r.lit[2]) THEN add_binary_clause(s, r.lit[1], r.lit[2])
  ELSE s

subst_and_simplify_binary_clause(s, l0, l1) ==
  subst_binary_store(s, subst_binary_loop(s, <<l0, l1>>, 1))

\* the pairs l0, l pushed for the watch vector w of l0
RECURSIVE collect_binary_clauses_of_watch(_, _, _)
collect_binary_clauses_of_watch(s, w, l0) ==
  IF w = <<>> THEN <<>>
  ELSE IF idx_is_literal(w[1])
  THEN (IF idx2lit(w[1]) > l0 /\ lit_is_unassigned(s, idx2lit(w[1]))
        THEN <<l0, idx2lit(w[1])>> ELSE <<>>)
       \o collect_binary_clauses_of_watch(s, Tail(w), l0)
  ELSE collect_binary_clauses_of_watch(s, Tail(Tail(w)), l0)

RECURSIVE collect_binary_clauses_from(_, _)
collect_binary_clauses_from(s, i) ==
  IF i >= s.nliterals THEN <<>>
  ELSE (IF lit_is_assigned(s, i) THEN <<>>
        ELSE collect_binary_clauses_of_watch(s, At(s.watch, i), i))
       \o collect_binary_clauses_from(s, i + 1)

\* collect_binary_clauses_and_reset_watches leaves every watch vector of
\* the literals 2 .. nliterals-1 empty
reset_watches(s) ==
  [s EXCEPT !.watch = [i \in DOMAIN s.watch |-> IF i - 1 < 2 THEN s.watch[i] ELSE <<>>]]

RECURSIVE subst_binary_clauses_from(_, _, _)
subst_binary_clauses_next(s1, aux, i) ==
  IF s1.has_empty_clause THEN s1 ELSE subst_binary_clauses_from(s1, aux, i + 2)

subst_binary_clauses_from(s, aux, i) ==
  IF i > Len(aux) THEN s
  ELSE subst_binary_clauses_next(
         subst_and_simplify_binary_clause(s, aux[i], aux[i + 1]), aux, i)

apply_subst_to_binary_clauses(s) ==
  subst_binary_clauses_from(reset_watches(s), collect_binary_clauses_from(s, 2), 1)

RECURSIVE subst_clauses_from(_, _)
subst_clauses_next(s1, cidx) ==
  IF s1.has_empty_clause THEN s1
  ELSE subst_clauses_from(s1, clause_pool_next_clause(s1.pool, cidx))

subst_clauses_from(s, cidx) ==
  IF cidx >= s.pool.size THEN s
  ELSE subst_clauses_next(subst_and_simplify_clause(s, cidx), cidx)

\* apply_substitution after the loop on the clauses of the pool
apply_subst_cleanup(s2) ==
  IF s2.has_empty_clause THEN s2 ELSE cleanup_after_simplify(s2)

\* apply_substitution after apply_subst_to_binary_clauses
apply_subst_to_clauses(s1) ==
  IF s1.has_empty_clause THEN s1
  ELSE apply_subst_cleanup(subst_clauses_from(s1, clause_pool_first_clause(s1.pool)))

apply_substitution(s) == apply_subst_to_clauses(apply_subst_to_binary_clauses(s))

\* try_scc_simplification after apply_substitution: units is the number of
\* unit clauses before
scc_propagate_units(s2, units) ==
  IF s2.has_empty_clause \/ s2.in_scan_loop THEN s2
  ELSE IF s2.units > units THEN level0_propagation(s2)
  ELSE s2

\* try_scc_simplification after compute_sccs: s is the solver before
scc_apply_substitution(s, s1) ==
  IF s1.has_empty_clause THEN s1
  ELSE IF s1.stats.subst_vars > s.stats.subst_vars
  THEN scc_propagate_units(apply_substitution(s1), s.units)
  ELSE s1

try_scc_simplification(s) == scc_apply_substitution(s, compute_sccs(s))

level0_literals(s) ==
  IF s.decision_level > 0 THEN At(s.stack.level_index, 1) ELSE s.stack.top

\* nsat_simplify after the SCC step
simplify_database_if_units(s1) ==
  IF s1.has_empty_clause \/ s1.in_scan_loop THEN s1
  ELSE IF level0_literals(s1) > s1.simplify_assigned
  THEN simplify_clause_database(s1)
  ELSE s1

scc_if_binaries(s0) ==
  simplify_database_if_units(IF s0.binaries > s0.simplify_binaries
                             THEN try_scc_simplification(s0) ELSE s0)

nsat_simplify(s) ==
  scc_if_binaries([s EXCEPT !.simplify_new_units = 0, !.simplify_new_bins = 0])

(***************************************************************************)
(* Heuristics: restart, reduce, simplify                                   *)
(***************************************************************************)
init_mode(s) ==
  [s EXCEPT !.progress = s.params.search_counter,
            !.check_next = s.params.search_period,
            !.diving = FALSE,
            !.dive_budget = s.params.diving_budget,
            !.max_depth = 0,
            !.max_depth_conflicts = 0,
            !.dive_start = 0]

init_restart(s) ==
  [s EXCEPT !.slow_ema = <<0, 0>>,
            !.fast_ema = <<0, 0>>,
            !.level_ema = <<0, 0>>,
            !.restart_next = s.params.restart_interval]

\* variant of need_restart: the level is compared with the slow average
restart_at_slow_level(s) ==
  /\ s.stats.conflicts >= s.restart_next
  /\ s.decision_level >= ema_hi32(s.slow_ema)
  /\ ema_ge(ema_sub(s.fast_ema,
                    ema_add(ema_shr(s.fast_ema, 4), ema_shr(s.fast_ema, 5))),
            s.slow_ema)

need_restart(s) ==
  /\ s.stats.conflicts >= s.restart_next
  /\ s.decision_level >= ema_hi32(s.fast_ema)
  /\ ema_ge(ema_sub(s.fast_ema,
                    ema_add(ema_shr(s.fast_ema, 4), ema_shr(s.fast_ema, 5))),
            s.slow_ema)

done_restart(s) ==
  [s EXCEPT !.restart_next = s.stats.conflicts + s.params.restart_interval]

init_reduce(s) ==
  [s EXCEPT !.reduce_next = s.params.reduce_interval,
            !.reduce_inc = s.params.reduce_interval,
            !.reduce_inc2 = s.params.reduce_delta]

need_reduce(s) == s.stats.conflicts >= s.reduce_next

done_reduce(s) ==
  [s EXCEPT !.reduce_inc = s.reduce_inc + s.reduce_inc2,
            !.reduce_next = s.stats.conflicts + s.reduce_inc + s.reduce_inc2,
            !.reduce_inc2 = IF @ > 0 THEN @ - 1 ELSE @]

init_simplify(s) ==
  [s EXCEPT !.simplify_assigned = 0,
            !.simplify_binaries = 0,
            !.simplify_next = 0]

need_simplify(s) ==
  /\ \/ level0_literals(s) > s.simplify_assigned
     \/ s.binaries > s.simplify_binaries + s.params.simplify_bin_delta
     \/ (s.binaries > s.simplify_binaries
         /\ s.stats.conflicts >= s.simplify_next + 100000)
  /\ s.stats.conflicts >= s.simplify_next

done_simplify(s) ==
  [s EXCEPT !.simplify_binaries = IF s.simplify_new_bins > s.binaries
                                  THEN s.binaries
                                  ELSE s.binaries - s.simplify_new_bins,
            !.simplify_assigned = s.stack.top,
            !.simplify_next = s.stats.conflicts + s.params.simplify_interval,
            !.check_next = s.stats.conflicts + s.params.search_period,
            !.progress = s.params.search_counter]

(***************************************************************************)
(* Decisions                                                               *)
(***************************************************************************)
\* the loop on the heap: [x, s], x = 0 when the heap is emptied
RECURSIVE select_from_heap(_)
select_from_heap(s) ==
  IF heap_is_empty(s.heap) THEN [x |-> 0, s |-> s]
  ELSE LET x == At(s.heap.heap, 1)
           s1 == [s EXCEPT !.heap = heap_remove_top(@)]
       IN  IF var_is_active(s, x) THEN [x |-> x, s |-> s1]
           ELSE select_from_heap(s1)

\* the loop from heap.vmax
RECURSIVE select_from_vmax(_, _)
select_from_vmax(s, x) ==
  IF x >= s.heap.nvars THEN [x |-> 0, s |-> [s EXCEPT !.heap.vmax = x]]
  ELSE IF var_is_active(s, x) THEN [x |-> x, s |-> [s EXCEPT !.heap.vmax = x + 1]]
  ELSE select_from_vmax(s, x + 1)

select_after_heap(r) ==
  IF r.x # 0 THEN r ELSE select_from_vmax(r.s, r.s.heap.vmax)

select_by_activity(s) == select_after_heap(select_from_heap(s))

\* nsat_select_decision_variable: [x, s]
\* q is the result of random_uint(solver, nvars)
select_random_variable(q) ==
  IF var_is_active(q.s, q.val)
  THEN [x |-> q.val, s |-> [q.s EXCEPT !.stats.random_decisions = @ + 1]]
  ELSE select_by_activity(q.s)

\* r is the result of random_uint32(solver)
select_after_draw(r) ==
  IF random_mask(r.val) < r.s.params.randomness
  THEN select_random_variable(random_uint(r.s, r.s.nvars))
  ELSE select_by_activity(r.s)

\* variant of nsat_select_decision_variable: the variables from heap.vmax
\* on are tried before those of the heap
select_after_vmax(r) == IF r.x # 0 THEN r ELSE select_from_heap(r.s)

select_in_index_order(s) == select_after_vmax(select_from_vmax(s, s.heap.vmax))

\* nsat_select_decision_variable: [x, s]
nsat_select_decision_variable(s) ==
  IF s.params.randomness > 0 THEN select_after_draw(random_uint32(s))
  ELSE select_by_activity(s)

\* variant of preferred_literal: the negative literal
negative_literal(s, x) == neg_lit(x)

\* pos_lit(x) ^ 1 ^ value[pos_lit(x)], the value being VAL_UNDEF_FALSE or
\* VAL_UNDEF_TRUE
preferred_literal(s, x) ==
  IF At(s.value, pos_lit(x)) = VAL_UNDEF_TRUE THEN pos_lit(x) ELSE neg_lit(x)

(***************************************************************************)
(* Model extension.  saved_clauses is the array data[0 .. top-1] of the    *)
(* saved-clause vector.                                                    *)
(***************************************************************************)
saved_clause_is_false(s, a) == \A i \in 1..Len(a) : lit_value(s, a[i]) # VAL_TRUE

\* first index j >= i with a[j] = l
RECURSIVE index_of_lit(_, _, _)
index_of_lit(a, l, j) == IF a[j] = l THEN j ELSE index_of_lit(a, l, j + 1)

\* TRUE when one of the clauses of the block a[i ..] has all its literals
\* other than l false
RECURSIVE block_has_false_clause(_, _, _, _)
block_has_false_clause(s, a, l, i) ==
  IF i > Len(a) THEN FALSE
  ELSE LET j == index_of_lit(a, l, i)
       IN  saved_clause_is_false(s, SubSeq(a, i, j - 1))
           \/ block_has_false_clause(s, a, l, j + 1)

\* variant of extend_assignment_for_block: the value of not(l) is left as
\* it was
extend_literal_for_block(s, a) ==
  [s EXCEPT !.value = Upd(@, a[Len(a)],
                          IF block_has_false_clause(s, a, a[Len(a)], 1)
                          THEN VAL_TRUE ELSE VAL_FALSE)]

extend_assignment_for_block(s, a) ==
  LET l == a[Len(a)]
      val == IF block_has_false_clause(s, a, l, 1) THEN VAL_TRUE ELSE VAL_FALSE
  IN  [s EXCEPT !.value = Upd(Upd(@, l, val), not(l), opposite_val(val))]

RECURSIVE extend_assignment_by_substitution(_, _)
extend_assignment_by_substitution(s, i) ==
  IF i >= s.nvars THEN s
  ELSE IF At(s.ante_tag, i) = ATAG_SUBST
  THEN LET val == lit_value(s, full_var_subst(s, i))
       IN  extend_assignment_by_substitution(
             [s EXCEPT !.value = Upd(Upd(@, pos_lit(i), val),
                                     neg_lit(i), opposite_val(val))], i + 1)
  ELSE extend_assignment_by_substitution(s, i + 1)

\* n is the number of words of saved_clauses not yet processed
RECURSIVE extend_assignment_from(_, _)
extend_assignment_from(s, n) ==
  IF n <= 0 THEN s
  ELSE LET block_size == s.saved_clauses[n]
           first == n - 1 - block_size
       IN  extend_assignment_from(
             extend_assignment_for_block(s, SubSeq(s.saved_clauses, first + 1, n - 1)),
             first)

\* the blocks of saved_clauses[1 .. n], each without its length, in the
\* order in which they were saved
RECURSIVE saved_blocks(_, _)
saved_blocks(v, n) ==
  IF n <= 0 THEN <<>>
  ELSE saved_blocks(v, n - 1 - v[n]) \o <<SubSeq(v, n - v[n], n - 1)>>

RECURSIVE extend_assignment_for_blocks(_, _, _)
extend_assignment_for_blocks(s, b, k) ==
  IF k > Len(b) THEN s
  ELSE extend_assignment_for_blocks(extend_assignment_for_block(s, b[k]), b, k + 1)

\* variant of extend_assignment: the block saved first is processed first
extend_assignment_in_saved_order(s) ==
  extend_assignment_for_blocks(extend_assignment_by_substitution(s, 1),
                               saved_blocks(s.saved_clauses, Len(s.saved_clauses)), 1)

\* variant of extend_assignment: the saved clauses are not visited
extend_assignment_without_blocks(s) == extend_assignment_by_substitution(s, 1)

extend_assignment(s) ==
  extend_assignment_from(extend_assignment_by_substitution(s, 1), Len(s.saved_clauses))

(***************************************************************************)
(* Preprocessing: queue of clauses to visit                                *)
(***************************************************************************)
RECURSIVE unmark_live_clauses(_, _, _)
unmark_live_clauses(pool, q, i) ==
  IF i > Len(q) THEN pool
  ELSE unmark_live_clauses(IF clause_is_live(pool, q[i])
                           THEN unmark_clause(pool, q[i]) ELSE pool, q, i + 1)

reset_clause_queue(s) ==
  [s EXCEPT !.scan_index = 0,
            !.pool = unmark_live_clauses(@, s.cqueue, 1),
            !.cqueue = <<>>]

clause_queue_push(s, cidx) ==
  IF cidx < s.scan_index /\ clause_is_unmarked(s.pool, cidx)
  THEN [s EXCEPT !.pool = mark_clause(@, cidx), !.cqueue = Append(@, cidx)]
  ELSE s

\* clause_scan_next returns scan_index; this is the solver after the call:
\* the search for the next clause does not end on a padding block of length 0
clause_scan_next(s) ==
  IF s.scan_index >= s.pool.size THEN s
  ELSE IF scan_diverges(s.pool, s.scan_index
                                  + (IF is_clause_start(s.pool, s.scan_index)
                                     THEN full_length(clause_length(s.pool, s.scan_index))
                                     ELSE 0))
  THEN [s EXCEPT !.in_scan_loop = TRUE]
  ELSE [s EXCEPT !.scan_index = clause_pool_next_clause(s.pool, s.scan_index)]

\* clause_queue_pop: [s, cidx], cidx = pool.size when the queue is empty
RECURSIVE clause_queue_pop(_)
clause_queue_pop(s) ==
  IF s.cqueue = <<>> THEN [s |-> s, cidx |-> s.pool.size]
  ELSE IF clause_is_live(s.pool, Head(s.cqueue))
  THEN [s |-> [s EXCEPT !.cqueue = Tail(@),
                        !.pool = unmark_clause(@, Head(s.cqueue))],
        cidx |-> Head(s.cqueue)]
  ELSE clause_queue_pop([s EXCEPT !.cqueue = Tail(@)])

(***************************************************************************)
(* Preprocessing: heap of the variables to eliminate.  elim.data[1 ..      *)
(* size-1] is the heap, elim.data[0] = 0, elim_idx[x] is the position of x *)
(* or -1.  elim.data is the empty sequence when the heap is not allocated. *)
(***************************************************************************)
pp_elim_candidate(s, x) ==
  \/ At(s.occ, pos_lit(x)) < s.params.var_elim_skip
  \/ At(s.occ, neg_lit(x)) < s.params.var_elim_skip

pp_elim_cost(s, x) == At(s.occ, pos_lit(x)) * At(s.occ, neg_lit(x))

var_occs(s, x) == At(s.occ, pos_lit(x)) + At(s.occ, neg_lit(x))

\* variant of elim_lt: two variables of the same group with the same cost
\* are each before the other
elim_le(s, x, y) ==
  IF pp_elim_cost(s, x) < var_occs(s, x) /\ pp_elim_cost(s, y) >= var_occs(s, y)
  THEN TRUE
  ELSE IF pp_elim_cost(s, y) < var_occs(s, y) /\ pp_elim_cost(s, x) >= var_occs(s, x)
  THEN FALSE
  ELSE pp_elim_cost(s, x) <= pp_elim_cost(s, y)

elim_lt(s, x, y) ==
  IF pp_elim_cost(s, x) < var_occs(s, x) /\ pp_elim_cost(s, y) >= var_occs(s, y)
  THEN TRUE
  ELSE IF pp_elim_cost(s, y) < var_occs(s, y) /\ pp_elim_cost(s, x) >= var_occs(s, x)
  THEN FALSE
  ELSE pp_elim_cost(s, x) < pp_elim_cost(s, y)

\* heap->data[i] = x; heap->elim_idx[x] = i
elim_heap_set(s, i, x) ==
  [s EXCEPT !.elim.data = Upd(@, i, x), !.elim.elim_idx = Upd(@, x, i)]

RECURSIVE elim_move_up_loop(_, _, _)
elim_move_up_loop(s, x, i) ==
  IF i \div 2 = 0 THEN elim_heap_set(s, i, x)
  ELSE IF ~elim_lt(s, x, At(s.elim.data, i \div 2)) THEN elim_heap_set(s, i, x)
  ELSE elim_move_up_loop(elim_heap_set(s, i, At(s.elim.data, i \div 2)), x, i \div 2)

elim_heap_move_up(s, i) == elim_move_up_loop(s, At(s.elim.data, i), i)

\* the smaller of the children j and j+1 of a node
elim_smaller_child(s, j) ==
  IF j + 1 < s.elim.size /\ elim_lt(s, At(s.elim.data, j + 1), At(s.elim.data, j))
  THEN j + 1 ELSE j

RECURSIVE elim_move_down_loop(_, _, _, _)
elim_move_down_step(s, x, i, j) ==
  IF elim_lt(s, x, At(s.elim.data, j)) THEN elim_heap_set(s, i, x)
  ELSE elim_move_down_loop(elim_heap_set(s, i, At(s.elim.data, j)), x, j, 2 * j)

elim_move_down_loop(s, x, i, j) ==
  IF j < s.elim.size THEN elim_move_down_step(s, x, i, elim_smaller_child(s, j))
  ELSE elim_heap_set(s, i, x)

elim_heap_move_down(s, i) == elim_move_down_loop(s, At(s.elim.data, i), i, 2 * i)

elim_heap_update(s, i) == elim_heap_move_down(elim_heap_move_up(s, i), i)

elim_heap_is_empty(s) == s.elim.size = 1

\* elim_heap_get_top returns elim.data[1]; this is the solver after the call
elim_heap_get_top(s) ==
  IF s.elim.size - 1 > 1
  THEN elim_heap_move_down(
         [s EXCEPT !.elim.size = @ - 1,
                   !.elim.data = Upd(Prefix(@, s.elim.size - 1), 1,
                                     At(s.elim.data, s.elim.size - 1)),
                   !.elim.elim_idx = Upd(Upd(@, At(s.elim.data, 1), -1),
                                         At(s.elim.data, s.elim.size - 1), 1)], 1)
  ELSE [s EXCEPT !.elim.size = @ - 1,
                 !.elim.data = Prefix(@, s.elim.size - 1),
                 !.elim.elim_idx = Upd(@, At(s.elim.data, 1), -1)]

elim_heap_insert_var(s, x) ==
  elim_heap_move_up([s EXCEPT !.elim.size = @ + 1,
                              !.elim.data = Append(@, x),
                              !.elim.elim_idx = Upd(@, x, s.elim.size)],
                    s.elim.size)

\* elim_heap_remove_var when x is at position i >= 0
elim_heap_remove_at(s, x, i) ==
  IF s.elim.size - 1 > i
  THEN elim_heap_update(
         [s EXCEPT !.elim.size = @ - 1,
                   !.elim.data = Upd(Prefix(@, s.elim.size - 1), i,
                                     At(s.elim.data, s.elim.size - 1)),
                   !.elim.elim_idx = Upd(Upd(@, x, -1),
                                         At(s.elim.data, s.elim.size - 1), i)], i)
  ELSE [s EXCEPT !.elim.size = @ - 1,
                 !.elim.data = Prefix(@, s.elim.size - 1),
                 !.elim.elim_idx = Upd(@, x, -1)]

elim_heap_remove_var(s, x) ==
  IF At(s.elim.elim_idx, x) >= 0 THEN elim_heap_remove_at(s, x, At(s.elim.elim_idx, x))
  ELSE s

elim_heap_update_var(s, x) ==
  IF var_is_unassigned(s, x) /\ pp_elim_candidate(s, x)
  THEN IF At(s.elim.elim_idx, x) < 0 THEN elim_heap_insert_var(s, x)
       ELSE elim_heap_update(s, At(s.elim.elim_idx, x))
  ELSE elim_heap_remove_var(s, x)

prepare_elim_heap(s) ==
  [s EXCEPT !.elim = [data |-> <<0>>,
                      elim_idx |-> <<0>> \o Fill(s.nvars - 1, -1),
                      size |-> 1]]

reset_elim_heap(s) == [s EXCEPT !.elim = init_elim_heap]

(***************************************************************************)
(* Preprocessing: unit and pure literals.  The literals to process are in  *)
(* lqueue; they are assigned but not pushed on the stack.                  *)
(***************************************************************************)
\* the end of pp_push_literal: v leaves the elimination heap if there is one
pp_remove_from_heap(s, v) ==
  IF s.elim.data # <<>> THEN elim_heap_remove_var(s, v) ELSE s

pp_push_literal(s, l, tag) ==
  pp_remove_from_heap(
    set_antecedent(set_true([s EXCEPT !.lqueue = Append(@, l)], l),
                   var_of(l), tag, 0, 0),
    var_of(l))

pp_push_pure_literal(s, l) == pp_push_literal(s, l, ATAG_PURE)

pp_push_unit_literal(s, l) == pp_push_literal(s, l, ATAG_UNIT)

\* pp_decrement_occ after occ[l] is decremented
pp_check_pure(s1, l) ==
  IF At(s1.occ, l) = 0 /\ At(s1.occ, not(l)) > 0 /\ ~lit_is_assigned(s1, l)
  THEN pp_push_pure_literal(s1, not(l))
  ELSE s1

pp_decrement_occ(s, l) ==
  pp_check_pure([s EXCEPT !.occ = Upd(@, l, At(s.occ, l) - 1)], l)

\* the variable x is moved in the elimination heap if there is one
pp_update_in_heap(s1, x) ==
  IF s1.elim.data = <<>> THEN s1 ELSE elim_heap_update_var(s1, x)

RECURSIVE pp_decrement_occ_counts_from(_, _, _)
pp_decrement_occ_counts_from(s, a, i) ==
  IF i > Len(a) THEN s
  ELSE pp_decrement_occ_counts_from(
         pp_update_in_heap(pp_decrement_occ(s, a[i]), var_of(a[i])), a, i + 1)

pp_decrement_occ_counts(s, a) == pp_decrement_occ_counts_from(s, a, 1)

RECURSIVE pp_increment_occ_counts_from(_, _, _)
pp_increment_occ_counts_from(s, a, i) ==
  IF i > Len(a) THEN s
  ELSE pp_increment_occ_counts_from(
         pp_update_in_heap([s EXCEPT !.occ = Upd(@, a[i], At(s.occ, a[i]) + 1)],
                           var_of(a[i])), a, i + 1)

pp_increment_occ_counts(s, a) == pp_increment_occ_counts_from(s, a, 1)

pp_delete_clause(s1, cidx) ==
  [s1 EXCEPT !.pool = clause_pool_delete_clause(@, cidx)]

pp_remove_clause(s, cidx) ==
  pp_delete_clause(pp_decrement_occ_counts(s, clause_literals(s.pool, cidx)), cidx)

\* the loop of pp_visit_clause on the literals a: r = [occ, true, lit],
\* lit the literals kept
RECURSIVE pp_visit_loop(_, _, _, _)
pp_visit_loop(s, a, i, r) ==
  IF i > Len(a) THEN r
  ELSE IF lit_value(s, a[i]) = VAL_TRUE
  THEN pp_visit_loop(s, a, i + 1,
                     [r EXCEPT !.true = TRUE, !.occ = Upd(@, a[i], At(r.occ, a[i]) - 1)])
  ELSE IF lit_value(s, a[i]) = VAL_FALSE
  THEN pp_visit_loop(s, a, i + 1, [r EXCEPT !.occ = Upd(@, a[i], At(r.occ, a[i]) - 1)])
  ELSE pp_visit_loop(s, a, i + 1, [r EXCEPT !.lit = Append(@, a[i])])

\* pp_visit_clause after the loop: s1 is the solver with the new counters
\* and the literals kept stored at the start of the clause
pp_visit_store(s1, cidx, r) ==
  IF r.true
  THEN pp_delete_clause(pp_decrement_occ_counts(s1, r.lit), cidx)
  ELSE IF Len(r.lit) = 0
  THEN pp_delete_clause(add_empty_clause(s1), cidx)
  ELSE IF Len(r.lit) = 1
  THEN pp_delete_clause(pp_push_unit_literal(s1, r.lit[1]), cidx)
  ELSE clause_queue_push(
         [s1 EXCEPT !.pool = set_clause_signature(
                                clause_pool_shrink_clause(@, cidx, Len(r.lit)), cidx)],
         cidx)

pp_visit_write(s, cidx, r) ==
  pp_visit_store([s EXCEPT !.occ = r.occ,
                           !.pool.data = write_clause_lits(@, cidx, r.lit, 1)],
                 cidx, r)

pp_visit_clause(s, cidx) ==
  pp_visit_write(s, cidx,
                 pp_visit_loop(s, clause_literals(s.pool, cidx), 1,
                               [occ |-> s.occ, true |-> FALSE, lit |-> <<>>]))

\* the loop of pp_remove_true_clauses on the vector w
RECURSIVE pp_remove_clauses_of(_, _, _)
pp_remove_clauses_of(s, w, i) ==
  IF i > Len(w) THEN s
  ELSE pp_remove_clauses_of(IF clause_is_live(s.pool, w[i])
                            THEN pp_remove_clause(s, w[i]) ELSE s, w, i + 1)

pp_free_watch(s1, l) == [s1 EXCEPT !.watch = Upd(@, l, <<>>)]

pp_remove_true_clauses(s, l) ==
  pp_free_watch(pp_remove_clauses_of(s, At(s.watch, l), 1), l)

\* the loop of pp_visit_clauses_of_lit on the vector w
RECURSIVE pp_visit_clauses_of(_, _, _)
pp_visit_clauses_next(s1, w, i) ==
  IF s1.has_empty_clause THEN s1 ELSE pp_visit_clauses_of(s1, w, i + 1)

pp_visit_clauses_of(s, w, i) ==
  IF i > Len(w) THEN s
  ELSE IF clause_is_live(s.pool, w[i])
  THEN pp_visit_clauses_next(pp_visit_clause(s, w[i]), w, i)
  ELSE pp_visit_clauses_of(s, w, i + 1)

pp_visit_clauses_of_lit(s, l) ==
  pp_free_watch(pp_visit_clauses_of(s, At(s.watch, l), 1), l)

RECURSIVE collect_unit_and_pure_literals_from(_, _)
collect_unit_and_pure_literals_from(s, i) ==
  IF i >= s.nvars THEN s
  ELSE collect_unit_and_pure_literals_from(
         IF var_value(s, i) = VAL_TRUE
         THEN [s EXCEPT !.lqueue = Append(@, pos_lit(i))]
         ELSE IF var_value(s, i) = VAL_FALSE
         THEN [s EXCEPT !.lqueue = Append(@, neg_lit(i))]
         ELSE IF At(s.occ, pos_lit(i)) = 0 THEN pp_push_pure_literal(s, neg_lit(i))
         ELSE IF At(s.occ, neg_lit(i)) = 0 THEN pp_push_pure_literal(s, pos_lit(i))
         ELSE s,
         i + 1)

collect_unit_and_pure_literals(s) == collect_unit_and_pure_literals_from(s, 1)

\* pp_empty_queue: [s, ok], ok is the value returned
RECURSIVE pp_empty_queue(_)
pp_queue_after_visit(s1) ==
  IF s1.has_empty_clause
  THEN [s |-> [s1 EXCEPT !.lqueue = <<>>], ok |-> FALSE]
  ELSE pp_empty_queue(s1)

\* s1 is the solver after pp_remove_true_clauses(solver, l)
pp_queue_visit(s1, l) ==
  IF At(s1.ante_tag, var_of(l)) = ATAG_UNIT
  THEN pp_queue_after_visit(pp_visit_clauses_of_lit(s1, not(l)))
  ELSE pp_empty_queue(s1)

pp_empty_queue(s) ==
  IF s.lqueue = <<>> THEN [s |-> s, ok |-> TRUE]
  ELSE pp_queue_visit(pp_remove_true_clauses([s EXCEPT !.lqueue = Tail(@)],
                                             Head(s.lqueue)),
                      Head(s.lqueue))

(***************************************************************************)
(* Preprocessing: garbage collection                                       *)
(***************************************************************************)
\* one while loop of pp_compact_clause_pool: [s, i, j]
RECURSIVE pp_compact_range(_, _, _, _)
pp_compact_clause(s, i, j, end, len) ==
  pp_compact_range(
    [s EXCEPT !.cqueue = IF clause_is_unmarked(s.pool, i) THEN @ ELSE Append(@, j),
              !.pool = IF j < i THEN clause_pool_move_clause(@, j, i, len) ELSE @],
    i + full_length(len), j + full_length(len), end)

pp_compact_range(s, i, j, end) ==
  IF i >= end THEN [s |-> s, i |-> i, j |-> j]
  ELSE IF At(s.pool.data, i) = 0
  THEN IF padding_length(s.pool, i) = 0
       THEN [s |-> [s EXCEPT !.in_scan_loop = TRUE], i |-> i, j |-> j]
       ELSE pp_compact_range(s, i + padding_length(s.pool, i), j, end)
  ELSE pp_compact_clause(s, i, j, end, clause_length(s.pool, i))

pp_compact_set_size(r2) ==
  IF r2.s.in_scan_loop THEN r2.s
  ELSE [r2.s EXCEPT !.pool.size = r2.j, !.pool.learned = r2.j,
                    !.pool.padding = 0, !.pool.data = Prefix(@, r2.j)]

pp_compact_rest(r1) ==
  IF r1.s.in_scan_loop THEN r1.s
  ELSE pp_compact_set_size(
         pp_compact_range([r1.s EXCEPT !.scan_index = r1.j], r1.i, r1.j,
                          r1.s.pool.size))

pp_compact_clause_pool(s) == pp_compact_rest(pp_compact_range(s, 0, 0, s.scan_index))

RECURSIVE pp_restore_watch_vectors_from(_, _)
pp_restore_watch_vectors_from(s, cidx) ==
  IF cidx >= s.pool.size THEN s
  ELSE pp_restore_watch_vectors_from(
         add_clause_all_watch(s, clause_literals(s.pool, cidx), 1, cidx),
         cidx + full_length(clause_length(s.pool, cidx)))

pp_restore_watch_vectors(s) ==
  pp_restore_watch_vectors_from(
    [s EXCEPT !.watch = [i \in DOMAIN s.watch |-> <<>>]],
    clause_pool_first_clause(s.pool))

pp_restore_after_compact(s1) ==
  IF s1.in_scan_loop THEN s1 ELSE pp_restore_watch_vectors(s1)

pp_collect_garbage(s) ==
  pp_restore_after_compact(pp_compact_clause_pool([s EXCEPT !.cqueue = <<>>]))

PP_GC_PADDING == 10000

pp_try_gc(s) ==
  IF s.pool.padding > PP_GC_PADDING /\ s.pool.padding > s.pool.size \div 8
  THEN pp_collect_garbage(s)
  ELSE s

(***************************************************************************)
(* Preprocessing: substitution of equivalent literals                      *)
(***************************************************************************)
RECURSIVE pp_simple_decrement_occ_counts(_, _, _)
pp_simple_decrement_occ_counts(occ, a, i) ==
  IF i > Len(a) THEN occ
  ELSE pp_simple_decrement_occ_counts(Upd(occ, a[i], At(occ, a[i]) - 1), a, i + 1)

\* the new clause b, sorted, is stored at the end of the pool: nothing in
\* the code keeps b from being empty
pp_subst_add_clause(s2, b) ==
  [add_clause_all_watch(
     [s2 EXCEPT !.pool = clause_pool_add_problem_clause(@, Len(b), b)],
     b, 1, s2.pool.size)
   EXCEPT !.pool = set_clause_signature(@, s2.pool.size)]

\* pp_apply_subst_to_clause for a clause that is not true: s1 is the solver
\* after the old clause is deleted, b the literals after substitution
pp_subst_store(s1, b) ==
  pp_increment_occ_counts(
    IF Len(b) = 1 THEN pp_push_unit_literal(s1, b[1])
    ELSE pp_subst_add_clause(s1, b),
    b)

\* r is the result of the loop on the literals
pp_subst_after_delete(s1, r) ==
  IF r.true THEN s1 ELSE pp_subst_store(s1, int_array_sort(r.lit))

pp_apply_subst_to_clause(s, cidx) ==
  pp_subst_after_delete(
    [s EXCEPT !.occ = pp_simple_decrement_occ_counts(
                        @, clause_literals(s.pool, cidx), 1),
              !.pool = clause_pool_delete_clause(@, cidx)],
    subst_clause_loop(s, clause_literals(s.pool, cidx), 1, {}))

RECURSIVE pp_apply_subst_to_watch_vector(_, _, _)
pp_apply_subst_to_watch_vector(s, w, i) ==
  IF i > Len(w) THEN s
  ELSE pp_apply_subst_to_watch_vector(
         IF clause_is_live(s.pool, w[i]) THEN pp_apply_subst_to_clause(s, w[i]) ELSE s,
         w, i + 1)

pp_apply_subst_to_lit(s, l) ==
  pp_free_watch(pp_apply_subst_to_watch_vector(s, At(s.watch, l), 1), l)

pp_apply_subst_to_variable(s, x) ==
  pp_apply_subst_to_lit(pp_apply_subst_to_lit(s, pos_lit(x)), neg_lit(x))

\* variant of clause_vector_save_subst_clause: l is stored, not its negation
clause_vector_save_subst_literal(v, l0, l) == v \o <<l0, l, 2>>

\* clause_vector_save_subst_clause(&saved_clauses, l0, l)
clause_vector_save_subst_clause(v, l0, l) == v \o <<l0, not(l), 2>>

\* the loop of pp_scc_simplification on the variables
RECURSIVE pp_subst_variables_from(_, _)
pp_subst_variables_from(s, i) ==
  IF i >= s.nvars THEN s
  ELSE IF At(s.ante_tag, i) = ATAG_SUBST
  THEN pp_subst_variables_from(
         pp_apply_subst_to_variable(
           [set_true(s, pos_lit(i)) EXCEPT
              !.saved_clauses = clause_vector_save_subst_clause(
                                  @, At(s.ante_data, i), pos_lit(i))],
           i),
         i + 1)
  ELSE pp_subst_variables_from(s, i + 1)

\* pp_scc_simplification after compute_sccs: [s, ok]
pp_scc_substitute(s1) ==
  IF s1.has_empty_clause THEN [s |-> s1, ok |-> FALSE]
  ELSE [s |-> pp_subst_variables_from(s1, 1), ok |-> TRUE]

pp_scc_simplification(s) == pp_scc_substitute(compute_sccs(s))

(***************************************************************************)
(* Preprocessing: subsumption and strengthening.  The literals of a clause *)
(* are in increasing order and a watch vector is the list of the clauses   *)
(* that contain the literal, in increasing order.                          *)
(***************************************************************************)
\* binary search of a variable x in a[l .. h-1]: its index, or m
RECURSIVE pp_search_for_var(_, _, _, _, _)
pp_search_for_var(x, l, h, m, a) ==
  IF l >= h THEN m
  ELSE IF x = var_of(At(a, (l + h) \div 2)) THEN (l + h) \div 2
  ELSE IF x < var_of(At(a, (l + h) \div 2))
  THEN pp_search_for_var(x, l, (l + h) \div 2, m, a)
  ELSE pp_search_for_var(x, ((l + h) \div 2) + 1, h, m, a)

\* a[k .. n-2] := a[k+1 .. n-1] in the clause cidx
RECURSIVE pp_remove_literal(_, _, _, _)
pp_remove_literal(data, cidx, n, k) ==
  IF k >= n - 1 THEN data
  ELSE pp_remove_literal(Upd(data, cidx + 2 + k, At(data, cidx + 2 + k + 1)),
                         cidx, n, k + 1)

\* the entry cidx of watch[l] is replaced by cidx + 2, which is not the
\* index of a clause
pp_remove_clause_from_watch(s, l, cidx) ==
  [s EXCEPT !.watch = Upd(@, l, [i \in DOMAIN At(s.watch, l) |->
                                   IF At(s.watch, l)[i] = cidx THEN cidx + 2
                                   ELSE At(s.watch, l)[i]])]

\* the loop of try_subsumption: a against b, from a[i] and b[j]; -1 when a
\* does not subsume b, else k: k = Len(b) when a is included in b, k < Len(b)
\* when b[k] is the one literal of b whose complement is in a
RECURSIVE subsumption_match(_, _, _, _, _)
subsumption_match_at(a, b, i, j, k) ==
  IF j = Len(b) THEN -1
  ELSE IF a[i] # At(b, j)
  THEN IF k < Len(b) THEN -1 ELSE subsumption_match(a, b, i + 1, j + 1, j)
  ELSE subsumption_match(a, b, i + 1, j + 1, k)

subsumption_match(a, b, i, j, k) ==
  IF i > Len(a) THEN k
  ELSE subsumption_match_at(a, b, i,
                            pp_search_for_var(var_of(a[i]), j, Len(b), Len(b), b), k)

\* try_subsumption when the literal l = b[k] is removed from the clause
\* cidx of length m: s1 is the solver after pp_decrement_occ(solver, l)
pp_strengthen_clause(s1, cidx, m, k, l) ==
  elim_heap_update_var(
    pp_remove_clause_from_watch(
      [s1 EXCEPT !.pool.data = pp_remove_literal(@, cidx, m, k)], l, cidx),
    var_of(l))

\* s2 is the solver after the literal is removed, m the new length
pp_strengthen_store(s2, cidx, m) ==
  IF m = 1
  THEN pp_delete_clause(pp_push_unit_literal(s2, first_literal_of_clause(s2.pool, cidx)),
                        cidx)
  ELSE clause_queue_push(
         [s2 EXCEPT !.pool = set_clause_signature(
                                clause_pool_shrink_clause(@, cidx, m), cidx)],
         cidx)

\* try_subsumption once the literals are compared
pp_subsume_or_strengthen(s, cidx, b, k) ==
  IF k < 0 THEN [s |-> s, ok |-> TRUE]
  ELSE IF k < Len(b)
  THEN pp_empty_queue(
         pp_strengthen_store(
           pp_strengthen_clause(pp_decrement_occ(s, At(b, k)), cidx, Len(b), k, At(b, k)),
           cidx, Len(b) - 1))
  ELSE pp_empty_queue(pp_delete_clause(pp_decrement_occ_counts(s, b), cidx))

\* try_subsumption: a, of signature sig, is the subsuming clause; [s, ok]
\* variant of try_subsumption: a clause of the same length is left alone
try_subsumption_of_longer(s, a, sig, cidx) ==
  IF clause_length(s.pool, cidx) <= Len(a)
     \/ sig_not_subset(sig, clause_signature(s.pool, cidx))
  THEN [s |-> s, ok |-> TRUE]
  ELSE pp_subsume_or_strengthen(
         s, cidx, clause_literals(s.pool, cidx),
         subsumption_match(a, clause_literals(s.pool, cidx), 1, 0,
                           clause_length(s.pool, cidx)))

try_subsumption(s, a, sig, cidx) ==
  IF clause_length(s.pool, cidx) < Len(a)
     \/ sig_not_subset(sig, clause_signature(s.pool, cidx))
  THEN [s |-> s, ok |-> TRUE]
  ELSE pp_subsume_or_strengthen(
         s, cidx, clause_literals(s.pool, cidx),
         subsumption_match(a, clause_literals(s.pool, cidx), 1, 0,
                           clause_length(s.pool, cidx)))

RECURSIVE pp_key_literal_from(_, _, _, _)
pp_key_literal_from(s, a, i, k) ==
  IF i > Len(a) THEN k
  ELSE IF At(s.occ, a[i]) + At(s.occ, not(a[i])) < At(s.occ, k) + At(s.occ, not(k))
  THEN pp_key_literal_from(s, a, i + 1, a[i])
  ELSE pp_key_literal_from(s, a, i + 1, k)

pp_key_literal(s, a) == pp_key_literal_from(s, a, 2, a[1])

\* c = [cidx, n, sig, start, l, m, self]: the clause cidx, its length and
\* signature when pp_clause_subsumption starts, the vector watch[l] visited
\* and its size m when the loop starts, self is FALSE when the entry cidx of
\* the vector is skipped.  The literals of cidx are read in the pool at each
\* call of try_subsumption.  Result [s, ok, live].
RECURSIVE pp_subsume_in_watch(_, _, _)
pp_subsume_in_watch_next(r, c, i) ==
  IF ~r.ok THEN [s |-> r.s, ok |-> FALSE, live |-> TRUE]
  ELSE IF ~clause_is_live(r.s.pool, c.cidx) THEN [s |-> r.s, ok |-> TRUE, live |-> FALSE]
  ELSE pp_subsume_in_watch(r.s, c, i + 1)

pp_subsume_in_watch_at(s, c, i, k) ==
  IF k >= c.start /\ (c.self \/ k # c.cidx) /\ clause_is_live(s.pool, k)
  THEN pp_subsume_in_watch_next(
         try_subsumption(s, SubSeq(s.pool.data, c.cidx + 3, c.cidx + 2 + c.n),
                         c.sig, k),
         c, i)
  ELSE pp_subsume_in_watch(s, c, i + 1)

pp_subsume_in_watch(s, c, i) ==
  IF i >= c.m \/ i >= Len(At(s.watch, c.l)) THEN [s |-> s, ok |-> TRUE, live |-> TRUE]
  ELSE pp_subsume_in_watch_at(s, c, i, At(At(s.watch, c.l), i))

\* the vector of l is visited when it has fewer than subsume_skip elements
pp_subsume_with_lit(s, cidx, n, sig, start, l, self) ==
  IF Len(At(s.watch, l)) < s.params.subsume_skip
  THEN pp_subsume_in_watch(s, [cidx |-> cidx, n |-> n, sig |-> sig, start |-> start,
                               l |-> l, m |-> Len(At(s.watch, l)), self |-> self], 0)
  ELSE [s |-> s, ok |-> TRUE, live |-> TRUE]

\* the value returned by pp_clause_subsumption
pp_subsume_result(r) == [s |-> r.s, ok |-> r.ok]

\* pp_clause_subsumption after the loop on watch[key]
pp_subsume_with_not_key(r, cidx, n, sig, start, key) ==
  IF ~r.ok \/ ~r.live THEN pp_subsume_result(r)
  ELSE pp_subsume_result(pp_subsume_with_lit(r.s, cidx, n, sig, start, not(key), TRUE))

pp_subsume_with_key(s, cidx, n, sig, start, key) ==
  pp_subsume_with_not_key(pp_subsume_with_lit(s, cidx, n, sig, start, key, FALSE),
                          cidx, n, sig, start, key)

\* pp_clause_subsumption: [s, ok]
pp_clause_subsumption(s, cidx, start) ==
  pp_subsume_with_key(s, cidx, clause_length(s.pool, cidx),
                      clause_signature(s.pool, cidx), start,
                      pp_key_literal(s, clause_literals(s.pool, cidx)))

\* TRUE when the scan of the pool from index i, clause after clause, meets
\* a padding block of length 0, which it never leaves
RECURSIVE pool_scan_diverges(_, _)
pool_scan_diverges(pool, i) ==
  IF i >= pool.size THEN FALSE
  ELSE IF is_padding_start(pool, i)
  THEN padding_length(pool, i) = 0
       \/ pool_scan_diverges(pool, i + padding_length(pool, i))
  ELSE pool_scan_diverges(pool, i + full_length(clause_length(pool, i)))

\* first loop of pp_subsumption, on the clauses not scanned yet: [s, ok]
RECURSIVE pp_subsume_scan(_)
pp_subsume_scan_next(r) == IF ~r.ok THEN r ELSE pp_subsume_scan(r.s)

\* s1 is the solver after clause_scan_next, which returned cidx
pp_subsume_scanned(s1, cidx) ==
  IF s1.in_scan_loop THEN [s |-> s1, ok |-> TRUE]
  ELSE IF clause_is_live(s1.pool, cidx)
  THEN pp_subsume_scan_next(pp_clause_subsumption(s1, cidx, 0))
  ELSE pp_subsume_scan(s1)

pp_subsume_scan(s) ==
  IF s.scan_index >= s.pool.size THEN [s |-> s, ok |-> TRUE]
  ELSE pp_subsume_scanned(clause_scan_next(s), s.scan_index)

\* pp_collect_vars_of_clause on the clauses from cidx: the vector aux
RECURSIVE add_new_vars(_, _, _)
add_new_vars(aux, a, i) ==
  IF i > Len(a) THEN aux
  ELSE add_new_vars(IF \E t \in 1..Len(aux) : aux[t] = var_of(a[i])
                    THEN aux ELSE Append(aux, var_of(a[i])), a, i + 1)

RECURSIVE pp_collect_vars_from(_, _, _)
pp_collect_vars_from(pool, cidx, aux) ==
  IF cidx >= pool.size THEN aux
  ELSE pp_collect_vars_from(
         pool, clause_pool_next_clause(pool, cidx),
         IF clause_is_live(pool, cidx)
         THEN add_new_vars(aux, clause_literals(pool, cidx), 1) ELSE aux)

\* pp_collect_subsume_candidates_in_watch: the vector cvector
RECURSIVE pp_collect_subsume_candidates_in_watch(_, _, _, _, _)
pp_collect_subsume_candidates_in_watch(pool, w, i, s0, cv) ==
  IF i > Len(w) THEN cv
  ELSE pp_collect_subsume_candidates_in_watch(
         pool, w, i + 1, s0,
         IF w[i] < s0 /\ clause_is_live(pool, w[i]) /\ clause_is_unmarked(pool, w[i])
            /\ ~(\E t \in 1..Len(cv) : cv[t] = w[i])
         THEN Append(cv, w[i]) ELSE cv)

RECURSIVE pp_collect_subsume_candidates(_, _, _, _, _)
pp_collect_subsume_candidates(s, aux, i, s0, cv) ==
  IF i > Len(aux) THEN cv
  ELSE pp_collect_subsume_candidates(
         s, aux, i + 1, s0,
         pp_collect_subsume_candidates_in_watch(
           s.pool, At(s.watch, neg_lit(aux[i])), 1, s0,
           pp_collect_subsume_candidates_in_watch(
             s.pool, At(s.watch, pos_lit(aux[i])), 1, s0, cv)))

\* the loop of pp_subsumption on the candidates: [s, ok]
RECURSIVE pp_subsume_candidates(_, _, _, _)
pp_subsume_candidates_next(r, cv, i, s0) ==
  IF ~r.ok THEN r ELSE pp_subsume_candidates(r.s, cv, i + 1, s0)

pp_subsume_candidates(s, cv, i, s0) ==
  IF i > Len(cv) THEN [s |-> s, ok |-> TRUE]
  ELSE IF clause_is_live(s.pool, cv[i])
  THEN pp_subsume_candidates_next(pp_clause_subsumption(s, cv[i], s0), cv, i, s0)
  ELSE pp_subsume_candidates(s, cv, i + 1, s0)

\* the last loop of pp_subsumption, on the queue of clauses: [s, ok]
RECURSIVE pp_subsume_queue(_)
pp_subsume_queue_next(r) == IF ~r.ok THEN r ELSE pp_subsume_queue(r.s)

\* q is the result of clause_queue_pop
pp_subsume_popped(q) ==
  IF q.cidx >= q.s.pool.size THEN [s |-> q.s, ok |-> TRUE]
  ELSE pp_subsume_queue_next(pp_clause_subsumption(q.s, q.cidx, 0))

pp_subsume_queue(s) == pp_subsume_popped(clause_queue_pop(s))

pp_subsume_queue_if(r) ==
  IF ~r.ok \/ r.s.in_scan_loop THEN r ELSE pp_subsume_queue(r.s)

\* the clauses added since the last call start at s0: the older clauses
\* that share a variable with them are the candidates
pp_subsume_old_clauses(s, s0) ==
  IF pool_scan_diverges(s.pool, s0) THEN [s |-> [s EXCEPT !.in_scan_loop = TRUE], ok |-> TRUE]
  ELSE pp_subsume_candidates(
         s,
         pp_collect_subsume_candidates(
           s, pp_collect_vars_from(s.pool, next_clause_index(s.pool, s0), <<>>),
           1, s0, <<>>),
         1, s0)

\* pp_subsumption after its first loop; s0 is scan_index at the start
pp_subsume_after_scan(r, s0) ==
  IF ~r.ok \/ r.s.in_scan_loop THEN r
  ELSE IF s0 > 0 THEN pp_subsume_queue_if(pp_subsume_old_clauses(r.s, s0))
  ELSE pp_subsume_queue(r.s)

\* pp_subsumption: [s, ok]
pp_subsumption(s) == pp_subsume_after_scan(pp_subsume_scan(s), s.scan_index)

(***************************************************************************)
(* Preprocessing: elimination of variables by resolution                   *)
(***************************************************************************)
RECURSIVE live_clauses_size(_, _, _)
live_clauses_size(pool, w, i) ==
  IF i > Len(w) THEN 0
  ELSE (IF clause_is_live(pool, w[i]) THEN clause_length(pool, w[i]) ELSE 0)
       + live_clauses_size(pool, w, i + 1)

\* the literals of a other than l
RECURSIVE literals_other_than(_, _, _)
literals_other_than(a, l, i) ==
  IF i > Len(a) THEN <<>>
  ELSE (IF a[i] # l THEN <<a[i]>> ELSE <<>>) \o literals_other_than(a, l, i + 1)

\* clause_vector_save_clause: the literals other than l, then l
clause_vector_save_clause(v, a, l) == v \o literals_other_than(a, l, 1) \o <<l>>

clause_vector_add_block_length(v, n) == Append(v, n)

\* the loop of pp_save_elim_clauses_for_var on the vector w
RECURSIVE pp_save_clauses_of(_, _, _, _, _)
pp_save_clauses_of(pool, v, w, i, l) ==
  IF i > Len(w) THEN v
  ELSE pp_save_clauses_of(
         pool,
         IF clause_is_live(pool, w[i])
         THEN clause_vector_save_clause(v, clause_literals(pool, w[i]), l) ELSE v,
         w, i + 1, l)

\* the clauses of l are saved, then the size of the block
pp_save_elim_block(s, l) ==
  [s EXCEPT !.saved_clauses =
     clause_vector_add_block_length(
       pp_save_clauses_of(s.pool, @, At(s.watch, l), 1, l),
       live_clauses_size(s.pool, At(s.watch, l), 1))]

pp_save_elim_clauses_for_var(s, x) ==
  IF live_clauses_size(s.pool, At(s.watch, neg_lit(x)), 1)
       < live_clauses_size(s.pool, At(s.watch, pos_lit(x)), 1)
  THEN pp_save_elim_block(s, neg_lit(x))
  ELSE pp_save_elim_block(s, pos_lit(x))

\* the loop of non_trivial_resolvent on a1 from i1 and a2 from i2, l is the
\* literal of a1 resolved: [ok, len]
RECURSIVE non_trivial_resolvent_loop(_, _, _, _, _, _)
non_trivial_resolvent_step(a1, a2, i1, i2, l, len) ==
  IF i1 < Len(a1) /\ i2 < Len(a2)
  THEN non_trivial_resolvent_loop(a1, a2, i1, i2, l, len)
  ELSE [ok |-> TRUE, len |-> len]

non_trivial_resolvent_loop(a1, a2, i1, i2, l, len) ==
  IF var_of(At(a1, i1)) < var_of(At(a2, i2))
  THEN non_trivial_resolvent_step(a1, a2, i1 + 1, i2, l, len)
  ELSE IF var_of(At(a1, i1)) > var_of(At(a2, i2))
  THEN non_trivial_resolvent_step(a1, a2, i1, i2 + 1, l, len)
  ELSE IF At(a1, i1) # At(a2, i2) /\ At(a1, i1) # l
  THEN [ok |-> FALSE, len |-> len]
  ELSE non_trivial_resolvent_step(a1, a2, i1 + 1, i2 + 1, l, len - 1)

non_trivial_resolvent(s, c1, c2, l) ==
  non_trivial_resolvent_loop(clause_literals(s.pool, c1), clause_literals(s.pool, c2),
                             0, 0, l,
                             clause_length(s.pool, c1) + clause_length(s.pool, c2))

\* the loop of pp_build_resolvent: [ok, lit], lit is the vector buffer
RECURSIVE pp_build_resolvent_loop(_, _, _, _, _, _)
pp_build_resolvent_step(a1, a2, i1, i2, l, b) ==
  IF i1 < Len(a1) /\ i2 < Len(a2)
  THEN pp_build_resolvent_loop(a1, a2, i1, i2, l, b)
  ELSE [ok |-> TRUE,
        lit |-> b \o SubSeq(a1, i1 + 1, Len(a1)) \o SubSeq(a2, i2 + 1, Len(a2))]

pp_build_resolvent_loop(a1, a2, i1, i2, l, b) ==
  IF var_of(At(a1, i1)) < var_of(At(a2, i2))
  THEN pp_build_resolvent_step(a1, a2, i1 + 1, i2, l, Append(b, At(a1, i1)))
  ELSE IF var_of(At(a1, i1)) > var_of(At(a2, i2))
  THEN pp_build_resolvent_step(a1, a2, i1, i2 + 1, l, Append(b, At(a2, i2)))
  ELSE IF At(a1, i1) = At(a2, i2)
  THEN pp_build_resolvent_step(a1, a2, i1 + 1, i2 + 1, l, Append(b, At(a1, i1)))
  ELSE IF At(a1, i1) # l THEN [ok |-> FALSE, lit |-> b]
  ELSE pp_build_resolvent_step(a1, a2, i1 + 1, i2 + 1, l, b)

\* variant of pp_build_resolvent: the literals of c1 other than l, then
\* those of c2 other than not(l), without the merge
concatenate_clauses(s, c1, c2, l) ==
  [ok |-> TRUE,
   lit |-> literals_other_than(clause_literals(s.pool, c1), l, 1)
             \o literals_other_than(clause_literals(s.pool, c2), not(l), 1)]

pp_build_resolvent(s, c1, c2, l) ==
  pp_build_resolvent_loop(clause_literals(s.pool, c1), clause_literals(s.pool, c2),
                          0, 0, l, <<>>)

pp_add_unit_resolvent(s, l) ==
  IF lit_value(s, l) = VAL_TRUE THEN s
  ELSE IF lit_value(s, l) = VAL_FALSE THEN add_empty_clause(s)
  ELSE pp_push_unit_literal(s, l)

\* pp_add_resolvent when the resolvent b is not trivial
pp_store_resolvent(s, b) ==
  pp_increment_occ_counts(
    IF Len(b) = 1 THEN pp_add_unit_resolvent(s, b[1])
    ELSE pp_subst_add_clause(s, b),
    b)

\* r is the result of pp_build_resolvent
pp_add_built_resolvent(s, r) == IF r.ok THEN pp_store_resolvent(s, r.lit) ELSE s

pp_add_resolvent(s, c1, c2, l) ==
  pp_add_built_resolvent(s, pp_build_resolvent(s, c1, c2, l))

pp_mark_eliminated_variable(s, x) ==
  set_antecedent(set_true(s, pos_lit(x)), x, ATAG_ELIM, 0, 0)

\* the loops of pp_variable_worth_eliminating on the vectors w1 and w2: n is
\* the number of occurrences of the variable, q = [new_n, len]
RECURSIVE pp_worth_loop(_, _, _, _, _, _, _, _)
pp_worth_count(s, w1, w2, i1, i2, l, n, q) ==
  IF q.new_n > n \/ q.len > s.params.res_clause_limit THEN FALSE
  ELSE pp_worth_loop(s, w1, w2, i1, i2 + 1, l, n, q)

\* r is the result of non_trivial_resolvent
pp_worth_add(q, r) ==
  IF r.ok THEN [new_n |-> q.new_n + 1, len |-> r.len] ELSE q

pp_worth_loop(s, w1, w2, i1, i2, l, n, q) ==
  IF i1 > Len(w1) THEN TRUE
  ELSE IF ~clause_is_live(s.pool, w1[i1]) \/ i2 > Len(w2)
  THEN pp_worth_loop(s, w1, w2, i1 + 1, 1, l, n, q)
  ELSE IF ~clause_is_live(s.pool, w2[i2])
  THEN pp_worth_loop(s, w1, w2, i1, i2 + 1, l, n, q)
  ELSE pp_worth_count(s, w1, w2, i1, i2, l, n,
                      pp_worth_add(q, non_trivial_resolvent(s, w1[i1], w2[i2], l)))

PP_MANY_CLAUSES == 10

pp_variable_worth_eliminating(s, x) ==
  IF At(s.watch, pos_lit(x)) = <<>> \/ At(s.watch, neg_lit(x)) = <<>> THEN TRUE
  ELSE IF Len(At(s.watch, pos_lit(x))) >= PP_MANY_CLAUSES
          /\ Len(At(s.watch, neg_lit(x))) >= PP_MANY_CLAUSES
  THEN FALSE
  ELSE pp_worth_loop(s, At(s.watch, pos_lit(x)), At(s.watch, neg_lit(x)), 1, 1,
                     pos_lit(x), var_occs(s, x), [new_n |-> 0, len |-> 0])

\* the first loops of pp_eliminate_variable: the resolvents are added
RECURSIVE pp_add_resolvents(_, _, _, _, _, _)
pp_add_resolvents_next(s1, w1, w2, i1, i2, l) ==
  IF s1.has_empty_clause THEN s1 ELSE pp_add_resolvents(s1, w1, w2, i1, i2 + 1, l)

pp_add_resolvents(s, w1, w2, i1, i2, l) ==
  IF i1 > Len(w1) THEN s
  ELSE IF ~clause_is_live(s.pool, w1[i1]) \/ i2 > Len(w2)
  THEN pp_add_resolvents(s, w1, w2, i1 + 1, 1, l)
  ELSE IF ~clause_is_live(s.pool, w2[i2])
  THEN pp_add_resolvents(s, w1, w2, i1, i2 + 1, l)
  ELSE pp_add_resolvents_next(pp_add_resolvent(s, w1[i1], w2[i2], l), w1, w2, i1, i2, l)

\* the end of pp_eliminate_variable: the clauses of x are saved and removed
pp_remove_clauses_of_var(s2, x, w1, w2) ==
  pp_try_gc(pp_free_watch(pp_free_watch(
              pp_remove_clauses_of(pp_remove_clauses_of(s2, w1, 1), w2, 1),
              pos_lit(x)), neg_lit(x)))

pp_save_and_remove(s1, x, w1, w2) ==
  IF s1.has_empty_clause THEN s1
  ELSE pp_remove_clauses_of_var(
         pp_mark_eliminated_variable(pp_save_elim_clauses_for_var(s1, x), x),
         x, w1, w2)

pp_eliminate_variable(s, x) ==
  IF At(s.watch, pos_lit(x)) = <<>> \/ At(s.watch, neg_lit(x)) = <<>> THEN s
  ELSE pp_save_and_remove(
         pp_add_resolvents(s, At(s.watch, pos_lit(x)), At(s.watch, neg_lit(x)),
                           1, 1, pos_lit(x)),
         x, At(s.watch, pos_lit(x)), At(s.watch, neg_lit(x)))

RECURSIVE collect_elimination_candidates_from(_, _)
collect_elimination_candidates_from(s, i) ==
  IF i >= s.nvars THEN s
  ELSE collect_elimination_candidates_from(
         IF var_is_active(s, i) /\ pp_elim_candidate(s, i)
         THEN elim_heap_insert_var(s, i) ELSE s,
         i + 1)

collect_elimination_candidates(s) == collect_elimination_candidates_from(s, 1)

RECURSIVE process_elimination_candidates(_)
\* r is the result of pp_empty_queue
pp_elim_after_queue(r) ==
  IF ~r.ok THEN r.s ELSE process_elimination_candidates(r.s)

\* s1 is the solver after pp_eliminate_variable
pp_elim_after_variable(s1) ==
  IF s1.has_empty_clause \/ s1.in_scan_loop THEN s1
  ELSE pp_elim_after_queue(pp_empty_queue(s1))

\* s1 is the solver after elim_heap_get_top, which returned x
pp_elim_candidate_step(s1, x) ==
  IF var_is_assigned(s1, x) \/ At(s1.occ, pos_lit(x)) = 0 \/ At(s1.occ, neg_lit(x)) = 0
     \/ ~pp_variable_worth_eliminating(s1, x)
  THEN process_elimination_candidates(s1)
  ELSE pp_elim_after_variable(pp_eliminate_variable(s1, x))

process_elimination_candidates(s) ==
  IF elim_heap_is_empty(s) THEN s
  ELSE pp_elim_candidate_step(elim_heap_get_top(s), At(s.elim.data, 1))

(***************************************************************************)
(* Preprocessing: the clauses left are prepared for the search             *)
(***************************************************************************)
pp_reset_watch_vectors(s) ==
  [s EXCEPT !.watch = [i \in DOMAIN s.watch |-> IF i - 1 < 2 THEN s.watch[i] ELSE <<>>]]

\* the loop of pp_rebuild_watch_vectors: the clause at i goes to j, or to
\* the watch vectors when it is binary
RECURSIVE pp_rebuild_from(_, _, _)
pp_rebuild_clause(s, i, j, n, l1, l2) ==
  pp_rebuild_from(
    add_clause_watch(
      add_clause_watch(
        [s EXCEPT !.pool = [IF j < i THEN clause_pool_move_clause(@, j, i, n) ELSE @
                              EXCEPT !.num_prob_clauses = @ + 1,
                                     !.num_prob_literals = @ + n]],
        l1, j, l2),
      l2, j, l1),
    i + full_length(n), j + full_length(n))

pp_rebuild_from(s, i, j) ==
  IF i >= s.pool.size
  THEN [s EXCEPT !.pool.learned = j, !.pool.size = j, !.pool.padding = 0,
                 !.pool.data = Prefix(@, j)]
  ELSE IF At(s.pool.data, i) = 0
  THEN IF padding_length(s.pool, i) = 0 THEN [s EXCEPT !.in_scan_loop = TRUE]
       ELSE pp_rebuild_from(s, i + padding_length(s.pool, i), j)
  ELSE IF At(s.pool.data, i) = 2
  THEN pp_rebuild_from(add_binary_clause(s, first_literal_of_clause(s.pool, i),
                                         second_literal_of_clause(s.pool, i)),
                       i + full_length(2), j)
  ELSE pp_rebuild_clause(s, i, j, At(s.pool.data, i),
                         first_literal_of_clause(s.pool, i),
                         second_literal_of_clause(s.pool, i))

pp_rebuild_watch_vectors(s) ==
  pp_rebuild_from([s EXCEPT !.pool.num_prob_clauses = 0, !.pool.num_prob_literals = 0],
                  0, 0)

reset_stack(stack) == [stack EXCEPT !.lit = <<>>, !.top = 0, !.prop_ptr = 0]

prepare_for_search(s) ==
  pp_rebuild_watch_vectors(
    pp_reset_watch_vectors([s EXCEPT !.units = 0, !.binaries = 0,
                                     !.stack = reset_stack(@)]))

(***************************************************************************)
(* nsat_preprocess                                                         *)
(***************************************************************************)
\* the loop  do { pp_empty_queue; pp_try_gc; pp_scc_simplification } while
\* the queue of literals is not empty: [s, ok], ok is FALSE on goto done
RECURSIVE pp_units_and_sccs(_)
pp_units_and_sccs_again(r) ==
  IF r.ok /\ r.s.lqueue # <<>> THEN pp_units_and_sccs(r.s) ELSE r

\* s1 is the solver after pp_try_gc
pp_sccs_after_gc(s1) ==
  IF s1.in_scan_loop THEN [s |-> s1, ok |-> FALSE]
  ELSE pp_units_and_sccs_again(pp_scc_simplification(s1))

\* r is the result of pp_empty_queue
pp_sccs_after_queue(r) == IF ~r.ok THEN r ELSE pp_sccs_after_gc(pp_try_gc(r.s))

pp_units_and_sccs(s) == pp_sccs_after_queue(pp_empty_queue(s))

\* the loop  do { process_elimination_candidates; pp_subsumption } while the
\* elimination heap is not empty
RECURSIVE pp_eliminate_and_subsume(_)
\* r is the result of pp_subsumption
pp_eliminate_again(r) ==
  IF r.ok /\ ~r.s.in_scan_loop /\ ~elim_heap_is_empty(r.s)
  THEN pp_eliminate_and_subsume(r.s) ELSE r.s

\* s1 is the solver after process_elimination_candidates
pp_subsume_after_elimination(s1) ==
  IF s1.has_empty_clause \/ s1.in_scan_loop THEN s1
  ELSE pp_eliminate_again(pp_subsumption(s1))

pp_eliminate_and_subsume(s) ==
  pp_subsume_after_elimination(process_elimination_candidates(s))

\* the label done of nsat_preprocess
pp_done(s) ==
  IF s.in_scan_loop THEN s
  ELSE IF s.has_empty_clause
  THEN reset_elim_heap(reset_clause_queue([s EXCEPT !.stats.pp_subst_vars =
                                                      s.stats.subst_vars]))
  ELSE prepare_for_search(
         reset_elim_heap(reset_clause_queue([s EXCEPT !.stats.pp_subst_vars =
                                                        s.stats.subst_vars])))

\* the last loop of nsat_preprocess
pp_last_units_and_sccs(s2) ==
  IF s2.in_scan_loop THEN s2 ELSE pp_done(pp_units_and_sccs(s2).s)

\* nsat_preprocess after its first loop, of result r
pp_elimination(r) ==
  IF ~r.ok THEN pp_done(r.s)
  ELSE pp_last_units_and_sccs(
         pp_eliminate_and_subsume(collect_elimination_candidates(prepare_elim_heap(r.s))))

nsat_preprocess(s) == pp_elimination(pp_units_and_sccs(collect_unit_and_pure_literals(s)))

nsat_do_preprocess(s) == [nsat_preprocess(s) EXCEPT !.preprocess = FALSE]

(***************************************************************************)
(* State of the model                                                      *)
(***************************************************************************)
VARIABLES
  solver,       \* the sat_solver_t object
  pc,           \* "idle" between two calls of the API, else the place in nsat_solve
  asserted,     \* the arrays given to assert_clause since creation or the last reset
  file,         \* index of the problem file the caller reads its clauses from
  last_in,      \* number of arrays of that file given to assert_clause
  resets,       \* number of calls of reset_nsat_solver
  preprocessed, \* nsat_do_preprocess has run since creation or the last reset
  before_reset  \* the arrays asserted and the status at the last reset

vars == <<solver, pc, asserted, file, last_in, resets, preprocessed, before_reset>>

\* The problem files of the caller: the arrays of literals of a file are
\* given to assert_clause in the order of the file.  The literals of the
\* variable x are 2x and 2x+1; 0 is the true literal and 1 the false one.
Inputs ==
  << << <<2, 4, 6>>, <<2, 2, 4>>, <<3, 2>>, <<1, 4>>, <<0, 5>> >>,
     << <<2, 4>>, <<5, 2, 4>>, <<>>, <<3, 5>>, <<2>> >>,
     << <<3>>, <<2, 3, 4>>, <<2, 4>>, <<1>>, <<5, 6>> >>,
     << <<3, 4>>, <<5, 6>>, <<7, 3>>, <<2>> >>,
     << <<2, 4>>, <<2, 5>>, <<3, 4>>, <<3, 5>> >>,
     << <<3, 4>>, <<5, 6>>, <<7, 2>>, <<2, 4>>, <<3, 5, 7>> >>,
     << <<3, 4>>, <<5, 2>>, <<4, 6>>, <<3, 5, 7>> >>,
     << <<2, 4>>, <<3, 6>>, <<5, 7>>, <<4, 6, 3>> >>,
     << <<2, 4, 6>>, <<3, 5, 7>>, <<2, 5>>, <<3, 4>>, <<4, 7>> >>,
     << <<2, 4, 6>>, <<2, 4, 7>>, <<2, 5, 6>>, <<2, 5, 7>>, <<3>> >>,
     << <<3, 4, 6>>, <<2, 5, 6>>, <<2, 4, 7>>, <<3, 5, 7>> >>,
     << <<2, 4, 6, 8>>, <<2, 4, 6, 9>>, <<2, 4, 7, 8>>, <<2, 4, 7, 9>>, <<2, 5>> >>,
     << <<2>>, <<4, 6>>, <<4, 7>>, <<5, 8>> >>,
     << <<2, 5, 7>>, <<2, 4>>, <<2, 6>>, <<2, 8>> >>,
     << <<2, 4, 6, 8>>, <<3, 4, 6>>, <<4, 7>>, <<3>>, <<9>> >>,
     << <<3, 6>>, <<7, 4>>, <<5, 6>>, <<2, 4>> >>,
     << <<2, 4>>, <<5, 6, 8>>, <<5, 6, 9>> >>,
     << <<2, 4>>, <<2, 5>>, <<2, 6>>, <<2, 4, 8>> >>,
     << <<2, 4, 6>>, <<3>>, <<5>> >>,
     << <<2, 4>>, <<2, 4, 6>>, <<3, 5, 7>>, <<3, 6>> >>,
     << <<2, 4, 6>>, <<3, 4, 8>>, <<8, 7>>, <<9, 5, 6>>, <<3, 7, 8>> >> >>

\* the caller's record of a run: nothing asserted, no verdict
no_reset == [ asserted |-> <<>>, status |-> STAT_UNKNOWN ]

PcValues ==
  {"idle", "preprocess", "level0", "simplify", "search", "branch", "restart",
   "done", "scan_loop"}

TypeOK ==
  /\ pc \in PcValues
  /\ solver.status \in {STAT_UNKNOWN, STAT_SAT, STAT_UNSAT}
  /\ solver.nliterals = 2 * solver.nvars
  /\ file \in 0..Len(Inputs)
  /\ last_in \in 0..MaxClauses
  /\ resets \in 0..MaxResets
  /\ preprocessed \in BOOLEAN
  /\ before_reset.status \in {STAT_UNKNOWN, STAT_SAT, STAT_UNSAT}

Init ==
  /\ \E pp \in BOOLEAN : solver = init_nsat_solver(pp)
  /\ pc = "idle"
  /\ asserted = <<>>
  /\ file = 0
  /\ last_in = 0
  /\ resets = 0
  /\ preprocessed = FALSE
  /\ before_reset = no_reset

\* the caller may add variables and clauses before the search and after UNSAT
may_extend == pc = "idle" /\ solver.status # STAT_SAT /\ solver.decision_level = 0

\* the place to go on from after a step that scans the clause pool
next_pc(s, p) == IF s.in_scan_loop THEN "scan_loop" ELSE p

call_set_restart_interval ==
  /\ may_extend
  /\ solver.nvars = 1
  /\ \E n \in {1} : solver' = [solver EXCEPT !.params.restart_interval = n]
  /\ UNCHANGED <<pc, asserted, file, last_in, resets, preprocessed, before_reset>>

call_set_simplify_interval ==
  /\ may_extend
  /\ solver.nvars = 1
  /\ \E n \in {0} : solver' = [solver EXCEPT !.params.simplify_interval = n]
  /\ UNCHANGED <<pc, asserted, file, last_in, resets, preprocessed, before_reset>>

call_set_reduce_interval ==
  /\ may_extend
  /\ solver.nvars = 1
  /\ \E n \in {1} : solver' = [solver EXCEPT !.params.reduce_interval = n]
  /\ UNCHANGED <<pc, asserted, file, last_in, resets, preprocessed, before_reset>>

call_new_var ==
  /\ may_extend
  /\ solver.nvars <= MaxVars
  /\ solver' = nsat_solver_new_var(solver)
  /\ UNCHANGED <<pc, asserted, file, last_in, resets, preprocessed, before_reset>>

call_add_vars ==
  /\ may_extend
  /\ \E n \in 2..MaxVars :
       /\ solver.nvars + n <= MaxVars + 1
       /\ solver' = nsat_solver_add_vars(solver, n)
  /\ UNCHANGED <<pc, asserted, file, last_in, resets, preprocessed, before_reset>>

\* the next array of the problem file; a file is chosen at the first array
\* and read again from its start after reset_nsat_solver
call_assert_clause ==
  /\ may_extend
  /\ last_in < MaxClauses
  /\ \E f \in (IF file = 0 THEN 1..Len(Inputs) ELSE {file}) :
       /\ last_in < Len(Inputs[f])
       /\ \A i \in 1..Len(Inputs[f][last_in + 1]) :
             Inputs[f][last_in + 1][i] < solver.nliterals
       /\ solver' = nsat_solver_simplify_and_add_clause(solver, Inputs[f][last_in + 1])
       /\ asserted' = Append(asserted, Inputs[f][last_in + 1])
       /\ file' = f
       /\ last_in' = last_in + 1
  /\ UNCHANGED <<pc, resets, preprocessed, before_reset>>

call_reset ==
  /\ pc = "idle"
  /\ resets < MaxResets
  /\ asserted # <<>> \/ solver.status # STAT_UNKNOWN
  /\ solver' = reset_nsat_solver(solver)
  /\ asserted' = <<>>
  /\ last_in' = 0
  /\ resets' = resets + 1
  /\ preprocessed' = FALSE
  /\ before_reset' = [ asserted |-> asserted, status |-> solver.status ]
  /\ UNCHANGED <<pc, file>>

\* variant of call_solve: has_empty_clause is not tested on entry
call_solve_without_test ==
  /\ pc = "idle"
  /\ solver.status # STAT_SAT
  /\ solver.heap.nvars = solver.nvars
  /\ solver' = init_simplify(init_reduce(init_restart(init_mode(
                  [solver EXCEPT !.prng = solver.params.seed,
                                 !.cla_inc = ACT_ONE]))))
  /\ pc' = IF solver.preprocess THEN "preprocess" ELSE "level0"
  /\ UNCHANGED <<asserted, file, last_in, resets, preprocessed, before_reset>>

\* nsat_solve up to the first propagation.  After reset_nsat_solver the heap
\* keeps its old nvars until variables are added: the model leaves out the
\* calls of nsat_solve made on a reset solver before any variable is added
\* (the decision loop would then read the arrays past solver->nvars).
call_solve ==
  /\ pc = "idle"
  /\ solver.status # STAT_SAT
  /\ solver.heap.nvars = solver.nvars
  /\ IF solver.has_empty_clause
     THEN solver' = solver /\ pc' = "done"
     ELSE /\ solver' = init_simplify(init_reduce(init_restart(init_mode(
                         [solver EXCEPT !.prng = solver.params.seed,
                                        !.cla_inc = ACT_ONE]))))
          /\ pc' = IF solver.preprocess THEN "preprocess" ELSE "level0"
  /\ UNCHANGED <<asserted, file, last_in, resets, preprocessed, before_reset>>

\* nsat_do_preprocess, then the test of has_empty_clause
solve_preprocess ==
  /\ pc = "preprocess"
  /\ solver' = nsat_do_preprocess(solver)
  /\ pc' = next_pc(solver', IF solver'.has_empty_clause THEN "done" ELSE "simplify")
  /\ preprocessed' = TRUE
  /\ UNCHANGED <<asserted, file, last_in, resets, before_reset>>

solve_level0 ==
  /\ pc = "level0"
  /\ solver' = level0_propagation(solver)
  /\ pc' = IF solver'.has_empty_clause THEN "done" ELSE "simplify"
  /\ UNCHANGED <<asserted, file, last_in, resets, preprocessed, before_reset>>

\* nsat_simplify and done_simplify, then the test of the while loop
solve_simplify ==
  /\ pc = "simplify"
  /\ solver' = done_simplify(nsat_simplify(solver))
  /\ pc' = next_pc(solver', IF solver'.has_empty_clause THEN "done" ELSE "search")
  /\ UNCHANGED <<asserted, file, last_in, resets, preprocessed, before_reset>>

\* sat_search: one round of propagation
search_propagate ==
  /\ pc = "search"
  /\ solver' = nsat_boolean_propagation(solver)
  /\ pc' = "branch"
  /\ UNCHANGED <<asserted, file, last_in, resets, preprocessed, before_reset>>

\* sat_search: no conflict and need_restart holds, the loop is left
search_break ==
  /\ pc = "branch"
  /\ solver.conflict_tag = CTAG_NONE
  /\ need_restart(solver)
  /\ pc' = IF solver.status # STAT_UNKNOWN THEN "done" ELSE "restart"
  /\ UNCHANGED <<solver, asserted, file, last_in, resets, preprocessed, before_reset>>

\* the solver after the reduction, if one is due, and update_max_depth
before_decision(s) ==
  update_max_depth(IF need_reduce(s)
                   THEN done_reduce(nsat_reduce_learned_clause_set(s))
                   ELSE s)

\* sat_search: no conflict, a decision variable is found
search_decide ==
  /\ pc = "branch"
  /\ solver.conflict_tag = CTAG_NONE
  /\ ~need_restart(solver)
  /\ \E r \in {nsat_select_decision_variable(before_decision(solver))} :
       /\ r.x # 0
       /\ solver' = nsat_decide_literal(r.s, preferred_literal(r.s, r.x))
       /\ pc' = next_pc(solver', "search")
  /\ UNCHANGED <<asserted, file, last_in, resets, preprocessed, before_reset>>

\* sat_search: no conflict and no variable to decide
search_sat ==
  /\ pc = "branch"
  /\ solver.conflict_tag = CTAG_NONE
  /\ ~need_restart(solver)
  /\ \E r \in {nsat_select_decision_variable(before_decision(solver))} :
       /\ r.x = 0
       /\ solver' = [r.s EXCEPT !.status = STAT_SAT]
       /\ pc' = next_pc(solver', "done")
  /\ UNCHANGED <<asserted, file, last_in, resets, preprocessed, before_reset>>

\* sat_search: conflict at decision level 0
search_unsat ==
  /\ pc = "branch"
  /\ solver.conflict_tag # CTAG_NONE
  /\ solver.decision_level = 0
  /\ solver' = [solver EXCEPT !.status = STAT_UNSAT]
  /\ pc' = "done"
  /\ UNCHANGED <<asserted, file, last_in, resets, preprocessed, before_reset>>

\* sat_search: conflict at a higher level
search_resolve_conflict ==
  /\ pc = "branch"
  /\ solver.conflict_tag # CTAG_NONE
  /\ solver.decision_level > 0
  /\ solver' = [decay_clause_activities(resolve_conflict(solver)) EXCEPT
                  !.heap = decay_var_activities(@)]
  /\ pc' = "search"
  /\ UNCHANGED <<asserted, file, last_in, resets, preprocessed, before_reset>>

\* nsat_solve after sat_search returns with status unknown
restart_simplify ==
  /\ pc = "restart"
  /\ need_simplify(solver)
  /\ solver' = done_simplify(nsat_simplify(done_restart(full_restart(solver))))
  /\ pc' = next_pc(solver', IF solver'.has_empty_clause THEN "done" ELSE "search")
  /\ UNCHANGED <<asserted, file, last_in, resets, preprocessed, before_reset>>

restart_partial ==
  /\ pc = "restart"
  /\ ~need_simplify(solver)
  /\ solver' = done_restart(partial_restart(solver))
  /\ pc' = "search"
  /\ UNCHANGED <<asserted, file, last_in, resets, preprocessed, before_reset>>

\* the label done of nsat_solve, and the return
solve_return ==
  /\ pc = "done"
  /\ solver' = IF solver.status = STAT_SAT THEN extend_assignment(solver) ELSE solver
  /\ pc' = "idle"
  /\ UNCHANGED <<asserted, file, last_in, resets, preprocessed, before_reset>>

Next ==
  \/ call_set_restart_interval
  \/ call_set_simplify_interval
  \/ call_set_reduce_interval
  \/ call_new_var
  \/ call_add_vars
  \/ call_assert_clause
  \/ call_reset
  \/ call_solve
  \/ solve_preprocess
  \/ solve_level0
  \/ solve_simplify
  \/ search_propagate
  \/ search_break
  \/ search_decide
  \/ search_sat
  \/ search_unsat
  \/ search_resolve_conflict
  \/ restart_simplify
  \/ restart_partial
  \/ solve_return

Spec == Init /\ [][Next]_vars

(***************************************************************************)
(* Properties                                                              *)
(***************************************************************************)
\* the literals of the array a
lits_of(a) == {a[i] : i \in 1..Len(a)}

\* the assignment of s makes a literal of a true (value, get_model)
clause_is_satisfied(s, a) == \E l \in lits_of(a) : lit_is_true(s, l)

\* the literal l under the truth assignment m of the variables 1..MaxVars;
\* the variable 0 is true
lit_holds(m, l) == IF var_of(l) = 0 THEN l = 0 ELSE m[var_of(l)] = (l % 2 = 0)

\* brute-force satisfiability of the list of clauses cl
satisfiable(cl) ==
  \E m \in [1..MaxVars -> BOOLEAN] :
    \A k \in 1..Len(cl) : \E l \in lits_of(cl[k]) : lit_holds(m, l)

\* nsat_solve has returned sat
returned_sat == pc = "idle" /\ solver.status = STAT_SAT

\* C1: without preprocessing (always so on a solver created with
\* preprocess=false), when solve has returned sat the assignment makes at
\* least one literal true in every asserted clause.
C1_ModelSatisfiesClauses ==
  (returned_sat /\ ~preprocessed) =>
    \A k \in 1..Len(asserted) : clause_is_satisfied(solver, asserted[k])

\* a sat answer found by decisions on five asserted clauses
C1_Witness ==
  /\ returned_sat
  /\ ~preprocessed
  /\ Len(asserted) = 5
  /\ solver.stats.decisions > 1

\* C2: without preprocessing, the verdict solve returns is sat or unsat and
\* it is sat exactly when some truth assignment satisfies all the asserted
\* clauses.
C2_VerdictIsBruteForce ==
  (pc = "done" /\ ~preprocessed) =>
    /\ solver.status \in {STAT_SAT, STAT_UNSAT}
    /\ (solver.status = STAT_SAT) = satisfiable(asserted)

\* an unsat verdict reached after conflicts in the search
C2_Witness ==
  /\ pc = "done"
  /\ ~preprocessed
  /\ solver.status = STAT_UNSAT
  /\ solver.stats.conflicts > 0

\* some variable of s has the antecedent tag t
has_var_with_tag(s, t) == \E x \in 1..(s.nvars - 1) : At(s.ante_tag, x) = t

\* C3: after preprocessing, when solve has returned sat the extended
\* assignment makes at least one literal true in every clause as it was
\* asserted.
C3_ExtendedModelSatisfiesClauses ==
  (returned_sat /\ preprocessed) =>
    \A k \in 1..Len(asserted) : clause_is_satisfied(solver, asserted[k])

\* a sat answer in which the extension makes an eliminated variable false
C3_Witness ==
  /\ returned_sat
  /\ preprocessed
  /\ \E x \in 1..(solver.nvars - 1) :
       At(solver.ante_tag, x) = ATAG_ELIM /\ lit_is_false(solver, pos_lit(x))

\* C4: after preprocessing, solve goes on to a verdict, which is sat exactly
\* when the asserted clauses are satisfiable: no step of nsat_solve is left
\* in a scan of the clause pool that cannot end.
C4_PreprocessingLeavesVerdict ==
  preprocessed =>
    /\ pc # "scan_loop"
    /\ pc = "done" => /\ solver.status \in {STAT_SAT, STAT_UNSAT}
                      /\ (solver.status = STAT_SAT) = satisfiable(asserted)

\* C5: every scan of the clause pool made by nsat_solve advances past each
\* clause and each padding block, so that the call goes on to its return.
C5_EveryScanAdvances == ~solver.in_scan_loop

C7_UnsatSetsEmptyClause ==
  solver.status = STAT_UNSAT => solver.has_empty_clause

\* the parts of the solver that the caller can observe through the trail,
\* the clause pool, the watch lists and the values
solver_core(s) == <<s.stack, s.pool, s.watch, s.value>>

\* C8: once has_empty_clause is set, every step but reset_nsat_solver keeps
\* the flag and the status unsat, and the steps of nsat_solve leave the
\* trail, the clause pool, the watch lists and the values as they are.
C8_EmptyClauseIsTerminal ==
  [][(solver.has_empty_clause /\ resets' = resets) =>
       /\ solver'.has_empty_clause
       /\ solver'.status = STAT_UNSAT
       /\ (pc # "idle" \/ pc' # "idle") => solver_core(solver') = solver_core(solver)]_vars

\* solve has been called after the empty array and two more arrays were given
C8_Witness ==
  /\ pc = "done"
  /\ solver.has_empty_clause
  /\ Len(asserted) = 5
  /\ asserted[3] = <<>>

\* the step is a call of assert_clause; the array given is the last of asserted'
assert_clause_step == last_in' = last_in + 1

\* the array a holds a literal and its negation
is_tautology(a) == \E l \in lits_of(a) : not(l) \in lits_of(a)

\* C9: assert_clause on an array that holds a literal and its negation
\* leaves the solver as it is.
C9_TautologyIsNoOp ==
  [][(assert_clause_step /\ is_tautology(asserted'[Len(asserted')])) =>
       solver' = solver]_vars

\* a tautology of three literals was given to a preprocessing solver that
\* holds a clause
C9_Witness ==
  /\ pc = "idle"
  /\ solver.preprocess
  /\ Len(asserted) = 2
  /\ is_tautology(asserted[2])
  /\ Len(asserted[2]) = 3
  /\ solver.pool.num_prob_clauses = 1

\* the literals of a that are not false in s
literals_kept(s, a) == {l \in lits_of(a) : ~lit_is_false(s, l)}

\* the clause of literals r was added to s as its length requires; t is the
\* solver after the call
clause_added(s, t, r) ==
  IF Cardinality(r) = 0
  THEN t.has_empty_clause /\ t.status = STAT_UNSAT
  ELSE IF Cardinality(r) = 1
  THEN \A l \in r : /\ lit_is_true(t, l)
                    /\ At(t.level, var_of(l)) = 0
                    /\ At(t.ante_tag, var_of(l)) = ATAG_UNIT
  ELSE IF Cardinality(r) = 2 /\ ~s.preprocess
  THEN /\ t.pool = s.pool
       /\ \A l \in r : \A l1 \in r \ {l} :
            At(t.watch, l) = Append(At(s.watch, l), lit2idx(l1))
  ELSE /\ clause_is_live(t.pool, s.pool.size)
       /\ lits_of(clause_literals(t.pool, s.pool.size)) = r
       /\ clause_length(t.pool, s.pool.size) = Cardinality(r)
       /\ t.pool.num_prob_clauses = s.pool.num_prob_clauses + 1
       /\ Cardinality(r) = 2 =>
            \A l \in r : At(t.watch, l) = Append(At(s.watch, l), s.pool.size)

\* C10: assert_clause on an array without complementary literals drops the
\* clause when a literal of the array is true, and else adds the literals
\* that are not false, each once: none gives the empty clause and the
\* status unsat, one is assigned at level 0 with antecedent unit, two are a
\* binary clause in both watch lists (a pool clause when preprocess is set),
\* three or more are a pool clause.
C10_AssertClauseByLength ==
  [][(assert_clause_step /\ ~is_tautology(asserted'[Len(asserted')])) =>
       IF \E l \in lits_of(asserted'[Len(asserted')]) : lit_is_true(solver, l)
       THEN solver' = solver
       ELSE clause_added(solver, solver',
                         literals_kept(solver, asserted'[Len(asserted')]))]_vars

\* the array <<1, 4>>, whose first literal is false, was given: a unit clause
C10_Witness ==
  /\ pc = "idle"
  /\ Len(asserted) = 4
  /\ asserted[4] = <<1, 4>>
  /\ lit_is_true(solver, 4)
  /\ At(solver.ante_tag, 2) = ATAG_UNIT

\* C11: in every state reached by new_var, add_vars, assert_clause, solve and
\* reset, variable 0 is true (literal 0 true, literal 1 false) with the
\* antecedent unit at level 0; it is not on the assignment stack (so it is
\* never decided and never unassigned by backtrack) and not in the heap.
C11_VariableZeroIsTrue ==
  /\ lit_value(solver, pos_lit(0)) = VAL_TRUE
  /\ lit_value(solver, neg_lit(0)) = VAL_FALSE
  /\ At(solver.ante_tag, 0) = ATAG_UNIT
  /\ At(solver.level, 0) = 0
  /\ \A i \in 1..solver.stack.top : var_of(solver.stack.lit[i]) # 0
  /\ \A i \in 1..solver.heap.heap_last : At(solver.heap.heap, i) # 0

\* solve has returned sat after decisions, for clauses that hold the
\* literals 0 and 1
C11_Witness ==
  /\ returned_sat
  /\ solver.stats.decisions > 0
  /\ Len(asserted) = 5
  /\ asserted[4] = <<1, 4>>
  /\ asserted[5] = <<0, 5>>

\* C12: when solve returns after a reset for the arrays that were asserted
\* before the reset, its verdict is the status the solver had at the reset
\* (the verdict of the first run), whatever variables were created, also
\* when the first run preprocessed, ended unsat or had has_empty_clause set.
C12_SameVerdictAfterReset ==
  (/\ pc = "done"
   /\ resets > 0
   /\ before_reset.status # STAT_UNKNOWN
   /\ asserted = before_reset.asserted)
  => solver.status = before_reset.status

\* the second run has searched and returns unsat; the first run was made
\* with preprocessing (occ is allocated and preprocess was switched off)
C12_Witness ==
  /\ pc = "done"
  /\ resets > 0
  /\ before_reset.status = STAT_UNSAT
  /\ asserted = before_reset.asserted
  /\ solver.occ # <<>>
  /\ ~solver.preprocess
  /\ solver.stats.conflicts > 0

\* the clauses a scan of the pool from index i visits
RECURSIVE pool_clauses(_, _)
pool_clauses(pool, i) ==
  IF i >= pool.size THEN {}
  ELSE IF is_padding_start(pool, i)
  THEN IF padding_length(pool, i) = 0 THEN {}
       ELSE pool_clauses(pool, i + padding_length(pool, i))
  ELSE {i} \cup pool_clauses(pool, i + full_length(clause_length(pool, i)))

\* number of times the clause index cidx is in the watch vector w, from i on
RECURSIVE clause_watch_count(_, _, _)
clause_watch_count(w, i, cidx) ==
  IF i > Len(w) THEN 0
  ELSE IF idx_is_literal(w[i]) THEN clause_watch_count(w, i + 1, cidx)
  ELSE (IF w[i] = cidx THEN 1 ELSE 0) + clause_watch_count(w, i + 2, cidx)

clause_is_in_watch_vector(s, l, cidx) ==
  clause_watch_count(At(s.watch, l), 1, cidx) = 1

check_all_clauses_are_in_watch_vectors(s) ==
  \A cidx \in pool_clauses(s.pool, 0) :
     /\ first_literal_of_clause(s.pool, cidx) < s.nliterals
     /\ second_literal_of_clause(s.pool, cidx) < s.nliterals
     /\ clause_is_in_watch_vector(s, first_literal_of_clause(s.pool, cidx), cidx)
     /\ clause_is_in_watch_vector(s, second_literal_of_clause(s.pool, cidx), cidx)

\* every clause index of w = watch[l], from i on, is a clause of the pool
\* whose first or second literal is l
RECURSIVE check_watch_vector_is_good(_, _, _, _)
check_watch_vector_is_good(s, w, i, l) ==
  IF i > Len(w) THEN TRUE
  ELSE IF idx_is_clause(w[i])
  THEN /\ w[i] \in pool_clauses(s.pool, 0)
       /\ \/ first_literal_of_clause(s.pool, w[i]) = l
          \/ second_literal_of_clause(s.pool, w[i]) = l
       /\ check_watch_vector_is_good(s, w, i + 2, l)
  ELSE check_watch_vector_is_good(s, w, i + 1, l)

check_all_watch_vectors_are_good(s) ==
  \A l \in 0..(s.nliterals - 1) : check_watch_vector_is_good(s, At(s.watch, l), 1, l)

check_watch_vectors(s) ==
  check_all_clauses_are_in_watch_vectors(s) /\ check_all_watch_vectors_are_good(s)

\* The solver is in search mode and no operation is stuck in a scan.
\* nsat_preprocess does not call prepare_for_search when it ends with the
\* empty clause: the search structures are then never built.  A conflict is
\* counted in the search only.
in_search_mode ==
  /\ ~solver.preprocess
  /\ pc # "scan_loop"
  /\ ~(preprocessed /\ solver.has_empty_clause) \/ solver.stats.conflicts > 0

num_false_literals_in_clause(s, cidx) ==
  Cardinality({j \in 1..clause_length(s.pool, cidx) :
                 lit_is_false(s, clause_literals(s.pool, cidx)[j])})

\* every literal implied by a clause is the first literal of that clause
check_clause_antecedents(s) ==
  \A i \in 1..s.stack.top :
    LET l == s.stack.lit[i] IN
      At(s.ante_tag, var_of(l)) = ATAG_CLAUSE =>
        first_literal_of_clause(s.pool, At(s.ante_data, var_of(l))) = l

\* every propagation is sound: in {l, l1} the literal l1 is false, in
\* {l, l1, ..., lk} the literals l1 ... lk are all false
check_sound_propagation(s) ==
  \A i \in 1..s.stack.top :
    LET l == s.stack.lit[i]
        tag == At(s.ante_tag, var_of(l))
        data == At(s.ante_data, var_of(l))
    IN /\ tag = ATAG_BINARY => lit_is_false(s, data)
       /\ tag = ATAG_CLAUSE =>
            num_false_literals_in_clause(s, data) = clause_length(s.pool, data) - 1

\* the literals of an antecedent clause were assigned at or before the level
\* of the literal it implies
antecedent_levels_are_lower(s) ==
  \A i \in 1..s.stack.top :
    LET l == s.stack.lit[i]
        cidx == At(s.ante_data, var_of(l))
    IN At(s.ante_tag, var_of(l)) = ATAG_CLAUSE =>
         \A j \in 1..clause_length(s.pool, cidx) :
           At(s.level, var_of(clause_literals(s.pool, cidx)[j])) <= At(s.level, var_of(l))

clause_is_true(s, cidx) ==
  \E j \in 1..clause_length(s.pool, cidx) :
    lit_is_true(s, clause_literals(s.pool, cidx)[j])

\* no pool clause is false and no pool clause is unit
check_pool_propagation(s) ==
  \A cidx \in pool_clauses(s.pool, 0) :
    ~clause_is_true(s, cidx) =>
      LET f == num_false_literals_in_clause(s, cidx)
          n == clause_length(s.pool, cidx)
      IN f # n /\ f # n - 1

\* the binary clauses {l, l1} in the watch vector w of a false literal l:
\* l1 is neither false nor unassigned
RECURSIVE check_missed_watch_prop(_, _, _)
check_missed_watch_prop(s, w, i) ==
  IF i > Len(w) THEN TRUE
  ELSE IF idx_is_literal(w[i])
       THEN /\ ~lit_is_false(s, idx2lit(w[i]))
            /\ ~lit_is_unassigned(s, idx2lit(w[i]))
            /\ check_missed_watch_prop(s, w, i + 1)
       ELSE check_missed_watch_prop(s, w, i + 2)

check_binary_propagation(s) ==
  \A l \in 0..(s.nliterals - 1) :
    lit_is_false(s, l) => check_missed_watch_prop(s, At(s.watch, l), 1)

\* nsat_boolean_propagation has returned without a conflict, to sat_search
\* or, in level0_propagation, to nsat_solve
propagated_without_conflict ==
  /\ pc \in {"branch", "simplify"}
  /\ solver.conflict_tag = CTAG_NONE

\* C15: whenever Boolean propagation returns without a conflict, no binary
\* clause and no pool clause is false, and no clause without a true literal
\* has exactly one unassigned literal.
C15_NoMissedPropagation ==
  propagated_without_conflict =>
    /\ check_pool_propagation(solver)
    /\ check_binary_propagation(solver)
    /\ solver.stack.prop_ptr = solver.stack.top

\* propagation ends without a conflict after a backtrack, with a learned
\* clause in the pool and a clause that is true by a literal other than its
\* two watched literals or its blocker only
C15_Witness ==
  /\ propagated_without_conflict
  /\ solver.stats.conflicts > 0
  /\ solver.decision_level > 0
  /\ solver.pool.num_learned_clauses > 0
  /\ \E cidx \in pool_clauses(solver.pool, 0) :
       /\ clause_is_true(solver, cidx)
       /\ ~lit_is_true(solver, clause_literals(solver.pool, cidx)[1])
       /\ ~lit_is_true(solver, clause_literals(solver.pool, cidx)[2])

\* ---------------------------------------------------------------------
\* Antecedents at decision level 0

\* the variables that are assigned at decision level 0
level0_variables(s) ==
  {x \in 1..(s.nvars - 1) : var_is_assigned(s, x) /\ At(s.level, x) = 0}

level0_tags_are_final(s) ==
  \A x \in level0_variables(s) :
    At(s.ante_tag, x) \in {ATAG_UNIT, ATAG_PURE, ATAG_ELIM, ATAG_SUBST}

\* the literals that were on the stack at the last call to done_simplify
\* and are still assigned at level 0
simplified_literals(s) ==
  {i \in 1..s.stack.top : i <= s.simplify_assigned /\ i <= level0_literals(s)}

RECURSIVE count_clauses(_, _, _, _)
count_clauses(pool, i, end, acc) ==
  IF i >= end \/ i >= pool.size THEN [acc EXCEPT !.next = i]
  ELSE IF clause_pool_next_clause(pool, i) = i THEN [acc EXCEPT !.clauses = -1]
  ELSE count_clauses(pool, clause_pool_next_clause(pool, i), end,
                     [clauses |-> acc.clauses + 1,
                      lits |-> acc.lits + clause_length(pool, i),
                      next |-> i])

good_counters(pool) ==
  LET zero == [clauses |-> 0, lits |-> 0, next |-> 0]
      prob == count_clauses(pool, clause_pool_first_clause(pool), pool.learned, zero)
      learned == count_clauses(pool, prob.next, pool.size, zero)
  IN /\ prob.clauses = pool.num_prob_clauses
     /\ prob.lits = pool.num_prob_literals
     /\ learned.clauses = pool.num_learned_clauses
     /\ learned.lits = pool.num_learned_literals

\* number of padding words from index cidx on
RECURSIVE count_padding(_, _, _)
count_padding(pool, cidx, n) ==
  IF cidx >= pool.size THEN n
  ELSE IF is_clause_start(pool, cidx)
  THEN count_padding(pool, cidx + full_length(clause_length(pool, cidx)), n)
  ELSE IF padding_length(pool, cidx) = 0 THEN -1
  ELSE count_padding(pool, cidx + padding_length(pool, cidx),
                     n + padding_length(pool, cidx))

good_padding_counter(pool) == count_padding(pool, 0, 0) = pool.padding

\* the last problem clause: its index and its end, found by counting
\* num_prob_clauses clauses from the start of the pool
RECURSIVE last_problem_clause(_, _, _, _)
last_problem_clause(pool, i, cidx, end) ==
  IF i >= pool.num_prob_clauses THEN [cidx |-> cidx, end |-> end]
  ELSE LET c == next_clause_index(pool, end)
       IN IF c >= pool.size THEN [cidx |-> c, end |-> end]
          ELSE last_problem_clause(pool, i + 1, c,
                                   c + full_length(clause_length(pool, c)))

check_clause_pool_learned_index(pool) ==
  LET r == last_problem_clause(pool, 0, 0, 0)
      next == next_clause_index(pool, r.end)
  IN /\ ~(r.cidx = pool.size /\ pool.num_prob_clauses > 0)
     /\ pool.num_prob_clauses > 0 => r.cidx < pool.learned
     /\ r.end <= pool.learned
     /\ ~(next < pool.size /\ next < pool.learned)

\* C17: the counters of problem clauses, problem literals, learned clauses,
\* learned literals and padding words agree with a scan of the pool, all
\* problem clauses are below the learned boundary and all learned clauses
\* are at or above it.
C17_PoolCountersAgreeWithScan ==
  /\ good_counters(solver.pool)
  /\ good_padding_counter(solver.pool)
  /\ check_clause_pool_learned_index(solver.pool)
  /\ solver.pool.learned <= solver.pool.size
  /\ solver.pool.size = Len(solver.pool.data)

\* ---------------------------------------------------------------------
\* Heap invariants

\* heap_index[x]; the cells that reset_heap has set to -1 are not kept in
\* the model until heap_add_vars makes them again
heap_index_of(heap, x) ==
  IF x < Len(heap.heap_index) THEN At(heap.heap_index, x) ELSE -1

check_heap(heap) ==
  /\ \A i \in 0..heap.heap_last :
       LET x == At(heap.heap, i)
           y == At(heap.heap, i \div 2)
       IN /\ heap_index_of(heap, x) = i
          /\ At(heap.activity, y) >= At(heap.activity, x)
  /\ \A x \in 0..(heap.nvars - 1) :
       LET k == heap_index_of(heap, x)
       IN k >= 0 => At(heap.heap, k) = x

RECURSIVE subst_chain_end(_, _, _)
subst_chain_end(s, l, k) ==
  IF At(s.ante_tag, var_of(l)) # ATAG_SUBST THEN l
  ELSE IF k = 0 THEN -1
  ELSE subst_chain_end(s, xor_sign(At(s.ante_data, var_of(l)), is_neg(l)), k - 1)

\* number of steps of the loop of full_lit_subst from l, at most k
RECURSIVE subst_chain_length(_, _, _)
subst_chain_length(s, l, k) ==
  IF At(s.ante_tag, var_of(l)) # ATAG_SUBST \/ k = 0 THEN 0
  ELSE 1 + subst_chain_length(s, xor_sign(At(s.ante_data, var_of(l)), is_neg(l)), k - 1)

substitution_chains_end(s) ==
  \A l \in 0..(s.nliterals - 1) :
    /\ subst_chain_end(s, l, s.nvars) # -1
    /\ At(s.ante_tag, var_of(l)) = ATAG_SUBST =>
         /\ var_of(At(s.ante_data, var_of(l))) # var_of(l)
         /\ At(s.ante_data, var_of(l)) < s.nliterals

\* C19 as stated: from every literal the substitution reaches, within nvars
\* steps, a literal whose variable is not substituted; no variable is mapped
\* to itself or to its own negation.
C19_Original == substitution_chains_end(solver)

\* C19, amended: as long as the empty clause has not been added, from every
\* literal the substitution reaches, within nvars steps, a literal whose
\* variable is not substituted, and no variable is mapped to itself or to
\* its own negation.  When process_scc finds a component with two
\* complementary literals it adds the empty clause, and by then it may have
\* mapped the variable of the representative to its own negation.
C19_SubstitutionChainsEnd ==
  ~solver.has_empty_clause => substitution_chains_end(solver)

\* solve has returned sat with two variables substituted in the search, one
\* of them by a negative literal, and each chain ends after one step
C19_Witness ==
  /\ returned_sat
  /\ ~preprocessed
  /\ \E x, y \in 1..(solver.nvars - 1) :
       /\ x # y
       /\ At(solver.ante_tag, x) = ATAG_SUBST
       /\ At(solver.ante_tag, y) = ATAG_SUBST
       /\ is_neg(At(solver.ante_data, x)) = 1
       /\ subst_chain_length(solver, pos_lit(x), solver.nvars) = 1
       /\ subst_chain_end(solver, pos_lit(y), solver.nvars) =
            full_lit_subst(solver, pos_lit(y))

\* ---------------------------------------------------------------------
\* Simplification, twice

\* the live clauses of the pool, as sets of literals
live_pool_clauses(s) ==
  {{clause_literals(s.pool, cidx)[j] : j \in 1..clause_length(s.pool, cidx)} :
     cidx \in pool_clauses(s.pool, 0)}

\* the literals l1 of the binary clauses {l, l1} in the watch vector w of l
RECURSIVE watched_binary_literals(_, _)
watched_binary_literals(w, i) ==
  IF i > Len(w) THEN {}
  ELSE IF idx_is_literal(w[i])
       THEN {idx2lit(w[i])} \cup watched_binary_literals(w, i + 1)
       ELSE watched_binary_literals(w, i + 2)

\* the binary clauses, read from the watch vectors
search_binary_clauses(s) ==
  UNION {{{l, l1} : l1 \in watched_binary_literals(At(s.watch, l), 1)} :
         l \in 0..(s.nliterals - 1)}

\* what the claim compares between two runs of simplify
simplify_result(s) ==
  [clauses |-> live_pool_clauses(s),
   num_clauses |-> Cardinality(pool_clauses(s.pool, 0)),
   binaries |-> search_binary_clauses(s),
   value |-> s.value,
   stack |-> SubSeq(s.stack.lit, 1, s.stack.top),
   has_empty_clause |-> s.has_empty_clause]

\* the solver when nsat_solve is about to call nsat_simplify
about_to_simplify ==
  \/ pc = "simplify"
  \/ pc = "restart" /\ need_simplify(solver)

before_simplify ==
  IF pc = "restart" THEN done_restart(full_restart(solver)) ELSE solver

\* the solver after the first run of simplify, as nsat_solve makes it
after_simplify == done_simplify(nsat_simplify(before_simplify))

\* C20 as stated: a second run of simplify at decision level 0, with no
\* assignment in between, leaves the live pool clauses, the binary clauses
\* and the level-0 assignment as the first run left them.
C20_Original ==
  (about_to_simplify /\ ~after_simplify.in_scan_loop) =>
    simplify_result(done_simplify(nsat_simplify(after_simplify)))
      = simplify_result(after_simplify)

\* C20, amended: a second run of simplify_clause_database leaves the live
\* pool clauses, the binary clauses and the level-0 assignment as the first
\* run of simplify left them, and so does a second run of nsat_simplify
\* unless the first run has produced binary clauses that no substitution
\* round has seen: then the second run starts with a new round.
C20_SimplifyTwice ==
  (about_to_simplify /\ ~after_simplify.in_scan_loop
                     /\ ~after_simplify.has_empty_clause) =>
    /\ simplify_result(simplify_clause_database(after_simplify))
         = simplify_result(after_simplify)
    /\ after_simplify.binaries <= after_simplify.simplify_binaries =>
         simplify_result(done_simplify(nsat_simplify(after_simplify)))
           = simplify_result(after_simplify)

\* the first run deletes a true clause, removes a false literal and keeps a
\* pool clause and a binary clause, and has produced no new binary clause
C20_Witness ==
  /\ about_to_simplify
  /\ ~after_simplify.in_scan_loop
  /\ ~after_simplify.has_empty_clause
  /\ after_simplify.binaries <= after_simplify.simplify_binaries
  /\ solver.stack.top > 0
  /\ live_pool_clauses(after_simplify) # {}
  /\ search_binary_clauses(after_simplify) # {}
  /\ live_pool_clauses(after_simplify) # live_pool_clauses(before_simplify)

(***************************************************************************)
(* Elimination of a variable by resolution                                 *)
(***************************************************************************)
\* the live clauses of the vector w, as arrays of literals
live_clauses_of(s, w) ==
  {clause_literals(s.pool, w[i]) : i \in {j \in 1..Len(w) : clause_is_live(s.pool, w[j])}}

\* the clauses that contain x or its negation
clauses_of_var(s, x) ==
  live_clauses_of(s, At(s.watch, pos_lit(x))) \cup live_clauses_of(s, At(s.watch, neg_lit(x)))

\* the set of literals c contains a literal and its negation
has_complementary_literals(c) == \E l \in c : not(l) \in c

\* the resolvents on x of the pairs (clause with x, clause with not x) that
\* are not tautologies, as sets of literals
resolvents_of_var(s, x) ==
  {r \in {(lits_of(a1) \cup lits_of(a2)) \ {pos_lit(x), neg_lit(x)} :
            a1 \in live_clauses_of(s, At(s.watch, pos_lit(x))),
            a2 \in live_clauses_of(s, At(s.watch, neg_lit(x)))} :
     ~has_complementary_literals(r)}

\* the solver s with the value of every variable taken from the truth
\* assignment m
with_assignment(s, m) ==
  [s EXCEPT !.value = [i \in 1..Len(s.value) |->
                         IF lit_holds(m, i - 1) THEN VAL_TRUE ELSE VAL_FALSE]]

\* the block that pp_save_elim_clauses_for_var added to the saved clauses of
\* s to give s2, without its length
saved_block_of(s, s2) ==
  SubSeq(s2.saved_clauses, Len(s.saved_clauses) + 1, Len(s2.saved_clauses) - 1)

\* in every model of the resolvents rs, extend_assignment_for_block on the
\* block a makes the clauses cl true
block_extends_models(s, a, rs, cl) ==
  \A m \in [1..MaxVars -> BOOLEAN] :
    (\A r \in rs : \E l \in r : lit_holds(m, l)) =>
      \A c \in cl :
        clause_is_satisfied(extend_assignment_for_block(with_assignment(s, m), a), c)

\* no literal occurs twice in a live clause of the pool
no_duplicate_literal(s) ==
  \A cidx \in pool_clauses(s.pool, 0) :
    Cardinality(lits_of(clause_literals(s.pool, cidx))) = clause_length(s.pool, cidx)

\* s2 is the solver after pp_eliminate_variable(s, x)
elimination_is_sound(s, x, s2) ==
  s2.has_empty_clause
  \/ /\ At(s2.ante_tag, x) = ATAG_ELIM
     /\ live_pool_clauses(s2) =
          (live_pool_clauses(s) \ {lits_of(a) : a \in clauses_of_var(s, x)})
            \cup {r \in resolvents_of_var(s, x) : Cardinality(r) >= 2}
     /\ \A r \in resolvents_of_var(s, x) :
          Cardinality(r) = 1 => \A l \in r : lit_is_true(s2, l)
     /\ no_duplicate_literal(s2)
     /\ Len(s2.saved_clauses) > Len(s.saved_clauses)
     /\ block_extends_models(s2, saved_block_of(s, s2), resolvents_of_var(s, x),
                             clauses_of_var(s, x))

\* the variables process_elimination_candidates takes from the heap of s
\* are eliminated soundly
RECURSIVE eliminations_are_sound(_)
\* r is the result of pp_empty_queue
sound_after_queue(r) == ~r.ok \/ eliminations_are_sound(r.s)

\* s2 is the solver after pp_eliminate_variable(s1, x)
sound_after_variable(s1, x, s2) ==
  /\ elimination_is_sound(s1, x, s2)
  /\ s2.has_empty_clause \/ s2.in_scan_loop \/ sound_after_queue(pp_empty_queue(s2))

\* s1 is the solver after elim_heap_get_top, which returned x
sound_candidate_step(s1, x) ==
  IF var_is_assigned(s1, x) \/ At(s1.occ, pos_lit(x)) = 0 \/ At(s1.occ, neg_lit(x)) = 0
     \/ ~pp_variable_worth_eliminating(s1, x)
  THEN eliminations_are_sound(s1)
  ELSE sound_after_variable(s1, x, pp_eliminate_variable(s1, x))

eliminations_are_sound(s) ==
  elim_heap_is_empty(s) \/ sound_candidate_step(elim_heap_get_top(s), At(s.elim.data, 1))

\* r is the result of the first loop of nsat_preprocess
sound_elimination_after(r) ==
  ~r.ok \/ eliminations_are_sound(collect_elimination_candidates(prepare_elim_heap(r.s)))

\* C21: when nsat_preprocess eliminates a variable x without deriving the
\* empty clause, the clauses of the pool that contained x or its negation
\* are replaced by exactly the resolvents on x that are not tautologies (a
\* resolvent of one literal becomes a true literal), no clause has a literal
\* twice, and the block saved for x makes extend_assignment give x a value
\* under which every removed clause is true in every model of the resolvents.
C21_EliminationByResolution ==
  pc = "preprocess" =>
    sound_elimination_after(pp_units_and_sccs(collect_unit_and_pure_literals(solver)))

\* preprocessing has eliminated a variable by resolution and saved a block
\* of clauses for it, and the search starts on the clauses left
C21_Witness ==
  /\ pc = "simplify"
  /\ preprocessed
  /\ ~solver.has_empty_clause
  /\ solver.saved_clauses # <<>>
  /\ \E x \in 1..(solver.nvars - 1) : At(solver.ante_tag, x) = ATAG_ELIM

(***************************************************************************)
(* Strongly connected components and the substitution                      *)
(***************************************************************************)
\* the binary clauses that next_successor reads: live pool clauses of two
\* literals in preprocessing mode, entries of the watch vectors otherwise
binary_clauses_of(s) ==
  IF s.preprocess THEN {c \in live_pool_clauses(s) : Cardinality(c) = 2}
  ELSE {c \in search_binary_clauses(s) : Cardinality(c) = 2}

\* the successors of the literals of ls in the implication graph of the
\* binary clauses bin: not(l0) or l1 gives the edge l0 --> l1
successors_of(bin, ls) ==
  {l1 \in UNION bin : \E l0 \in ls : l0 # not(l1) /\ {not(l0), l1} \in bin}

\* the literals that can be reached from a literal of ls, ls included
RECURSIVE reachable_from(_, _)
reachable_from(bin, ls) ==
  IF successors_of(bin, ls) \subseteq ls THEN ls
  ELSE reachable_from(bin, ls \cup successors_of(bin, ls))

\* the strongly connected component of l
component_of(bin, l) ==
  {l1 \in reachable_from(bin, {l}) : l \in reachable_from(bin, {l1})}

\* the literals that compute_sccs visits: those it can reach from an
\* active literal
visited_literals(s, bin) ==
  reachable_from(bin, {l \in 2..(s.nliterals - 1) : lit_is_active(s, l)})

\* the smallest literal of the set c
smallest_literal(c) == CHOOSE l \in c : \A l1 \in c : l <= l1

\* the literals of c and their negations are mapped to rep and its negation
maps_component_to(s2, c, rep) ==
  \A l \in c : lit_subst(s2, l) = rep /\ lit_subst(s2, not(l)) = not(rep)

\* the substitution of s2 maps the component c to one of its literals, the
\* smallest one in preprocessing mode
component_has_representative(s2, c) ==
  /\ \E rep \in c : maps_component_to(s2, c, rep)
  /\ s2.preprocess => maps_component_to(s2, c, smallest_literal(c))

\* the component c holds a literal and its negation
component_is_inconsistent(c) == \E l \in c : not(l) \in c

\* s2 is the solver after compute_sccs(s), bin the binary clauses of s and
\* vs the literals visited
scc_round_on(s, s2, bin, vs) ==
  IF \E l \in vs : component_is_inconsistent(component_of(bin, l))
  THEN s2.has_empty_clause
  ELSE /\ s2.has_empty_clause = s.has_empty_clause
       /\ \A l \in vs : component_has_representative(s2, component_of(bin, l))

scc_round_is_right(s, s2) ==
  scc_round_on(s, s2, binary_clauses_of(s), visited_literals(s, binary_clauses_of(s)))

\* r is the result of pp_empty_queue at the start of nsat_preprocess
first_scc_round_is_right(r) ==
  ~r.ok \/ pp_try_gc(r.s).in_scan_loop
        \/ scc_round_is_right(pp_try_gc(r.s), compute_sccs(pp_try_gc(r.s)))

\* C22: after compute_sccs, in the first round of nsat_preprocess and in
\* nsat_simplify, every strongly connected component of the implication
\* graph of the binary clauses is mapped to one of its literals (the
\* smallest one in preprocessing mode) and the negated literals to the
\* negation of that literal; if a component holds a literal and its
\* negation the empty clause is recorded.
C22_ComponentsHaveOneRepresentative ==
  /\ pc = "preprocess" =>
       first_scc_round_is_right(pp_empty_queue(collect_unit_and_pure_literals(solver)))
  /\ (pc = "simplify" /\ solver.binaries > solver.simplify_binaries) =>
       scc_round_is_right(solver, compute_sccs(solver))

\* preprocessing has found a component of two literals or more and
\* substituted a variable
C22_Witness ==
  /\ pc = "simplify"
  /\ preprocessed
  /\ ~solver.has_empty_clause
  /\ \E x \in 1..(solver.nvars - 1) : At(solver.ante_tag, x) = ATAG_SUBST

(***************************************************************************)
(* The model returned                                                      *)
(***************************************************************************)
\* the array a that nsat_get_true_literals fills, from the literal l on
RECURSIVE true_literals_from(_, _)
true_literals_from(s, l) ==
  IF l >= s.nliterals THEN <<>>
  ELSE (IF lit_value(s, l) = VAL_TRUE THEN <<l>> ELSE <<>>)
       \o true_literals_from(s, l + 1)

nsat_get_true_literals(s) == true_literals_from(s, 0)

\* val[i] of nsat_get_allvars_assignment
nsat_get_allvars_assignment(s) == [i \in 1..s.nvars |-> lit_value(s, pos_lit(i - 1))]

\* x is true or false, and its two literals have opposite values
var_has_definite_value(s, x) ==
  \/ lit_value(s, pos_lit(x)) = VAL_TRUE /\ lit_value(s, neg_lit(x)) = VAL_FALSE
  \/ lit_value(s, pos_lit(x)) = VAL_FALSE /\ lit_value(s, neg_lit(x)) = VAL_TRUE

\* C23: when solve has returned sat, every variable 0 .. nvars-1 is true or
\* false with its two literals of opposite values, and get_true_literals
\* returns nvars literals, one for each variable.
C23_ModelIsTotal ==
  returned_sat =>
    /\ \A x \in 0..(solver.nvars - 1) : var_has_definite_value(solver, x)
    /\ \A i \in 1..solver.nvars :
         nsat_get_allvars_assignment(solver)[i] \in {VAL_TRUE, VAL_FALSE}
    /\ Len(nsat_get_true_literals(solver)) = solver.nvars
    /\ \A x \in 0..(solver.nvars - 1) :
         Cardinality({i \in 1..Len(nsat_get_true_literals(solver)) :
                        var_of(nsat_get_true_literals(solver)[i]) = x}) = 1

\* a sat answer on four variables, one of them decided and one of them
\* pure, eliminated by resolution or substituted
C23_Witness ==
  /\ returned_sat
  /\ solver.nvars = 5
  /\ \E x \in 1..4 : At(solver.ante_tag, x) \in {ATAG_PURE, ATAG_ELIM, ATAG_SUBST}
  /\ \E x \in 1..4 : At(solver.ante_tag, x) = ATAG_DECISION

(***************************************************************************)
(* Learned clauses                                                         *)
(***************************************************************************)
\* sat_search has found a conflict at a level above 0 and is about to call
\* resolve_conflict
at_conflict ==
  pc = "branch" /\ solver.conflict_tag # CTAG_NONE /\ solver.decision_level > 0

\* the clauses of the database of s: the live clauses of the pool, problem
\* and learned, and the binary clauses of the watch vectors
database_clauses(s) == live_pool_clauses(s) \cup search_binary_clauses(s)

\* every truth assignment that satisfies the clauses of cl satisfies c
is_consequence_of(cl, c) ==
  \A m \in [1..MaxVars -> BOOLEAN] :
    (\A c1 \in cl : \E l \in c1 : lit_holds(m, l)) => \E l \in c : lit_holds(m, l)

\* the clause that resolve_conflict learns in s
learned_clause(s) == simplify_learned_clause(analyze_conflict(s))

\* C24: the clause learned at a conflict, after minimisation, is a
\* consequence of the problem, binary and learned clauses of the database:
\* every truth assignment that satisfies them satisfies the learned clause.
C24_LearnedClauseIsImplied ==
  at_conflict => is_consequence_of(database_clauses(solver), lits_of(learned_clause(solver)))

\* a conflict where the minimisation removes a literal of the clause
C24_Witness ==
  /\ at_conflict
  /\ Len(learned_clause(solver)) < Len(analyze_conflict(solver).buffer)

\* the variables still marked after simplify_learned_clause on the analysis
\* a: the marks of the variables of the buffer are removed, those of the
\* literals kept and those of the literals moved to aux
marked_after_simplify(a) == a.marked \ {var_of(a.buffer[i]) : i \in 1..Len(a.buffer)}

\* b is a clause learned at a conflict of s: b[1] is false and the only
\* literal of the conflict level, the other literals are false at the
\* levels 1 .. decision_level - 1, and no variable occurs twice
is_asserting_clause(s, b) ==
  /\ Len(b) >= 1
  /\ lit_is_false(s, b[1])
  /\ d_level(s, b[1]) = s.decision_level
  /\ \A i \in 2..Len(b) :
       /\ lit_is_false(s, b[i])
       /\ d_level(s, b[i]) \in 1..(s.decision_level - 1)
  /\ Cardinality({var_of(b[i]) : i \in 1..Len(b)}) = Len(b)
  /\ Cardinality({i \in 1..Len(b) : d_level(s, b[i]) = s.decision_level}) = 1

\* a is the result of analyze_conflict(s)
analysis_is_right(s, a) ==
  /\ is_asserting_clause(s, a.buffer)
  /\ a.marked = {var_of(a.buffer[i]) : i \in 1..Len(a.buffer)}
  /\ a.n = 1
  /\ is_asserting_clause(s, simplify_learned_clause(a))
  /\ marked_after_simplify(a) = {}

\* C25: at a conflict at a decision level d > 0, the clause of
\* analyze_conflict, before and after simplify_learned_clause, has at
\* position 0 the negation of a literal assigned at level d, its other
\* literals are false at levels 1 .. d-1, no variable occurs twice, one
\* literal only is at level d, the marked variables are those of the
\* clause after the analysis and none is marked after the minimisation.
C25_LearnedClauseIsAsserting ==
  at_conflict => analysis_is_right(solver, analyze_conflict(solver))

\* a conflict at level 2 or above whose learned clause has a literal of a
\* lower level
C25_Witness ==
  /\ at_conflict
  /\ solver.decision_level >= 2
  /\ Len(learned_clause(solver)) >= 2

\* the highest decision level of the literals of b other than b[1], 0 when
\* there is none
second_highest_level(s, b) ==
  IF Len(b) = 1 THEN 0
  ELSE CHOOSE d \in {d_level(s, b[i]) : i \in 2..Len(b)} :
         \A i \in 2..Len(b) : d_level(s, b[i]) <= d

\* the antecedent of the literal b[1] in s2 is the clause b: the clause
\* added last to the pool, the other literal of a binary clause, or a unit
\* clause
learned_clause_is_antecedent(s, s2, b) ==
  IF Len(b) >= 3
  THEN /\ At(s2.ante_tag, var_of(b[1])) = ATAG_CLAUSE
       /\ At(s2.ante_data, var_of(b[1])) = s.pool.size
       /\ clause_is_live(s2.pool, s.pool.size)
       /\ is_learned_clause_idx(s2.pool, s.pool.size)
       /\ clause_literals(s2.pool, s.pool.size) = b
  ELSE IF Len(b) = 2
  THEN /\ At(s2.ante_tag, var_of(b[1])) = ATAG_BINARY
       /\ At(s2.ante_data, var_of(b[1])) = b[2]
       /\ b[2] \in watched_binary_literals(At(s2.watch, b[1]), 1)
  ELSE At(s2.ante_tag, var_of(b[1])) = ATAG_UNIT

\* s is the solver at the conflict, b the learned clause, p the result of
\* prepare_to_backtrack and s2 the solver after resolve_conflict
backjump_is_right(s, b, p, s2) ==
  /\ p.level = second_highest_level(s, b)
  /\ p.level < s.decision_level
  /\ p.buffer[1] = b[1]
  /\ Len(p.buffer) = Len(b)
  /\ lits_of(p.buffer) = lits_of(b)
  /\ Len(b) >= 2 => d_level(s, p.buffer[2]) = p.level
  /\ s2.decision_level = p.level
  /\ s2.conflict_tag = CTAG_NONE
  /\ lit_is_true(s2, b[1])
  /\ d_level(s2, b[1]) = p.level
  /\ At(s2.stack.lit, s2.stack.top - 1) = b[1]
  /\ learned_clause_is_antecedent(s, s2, p.buffer)
  /\ \A i \in 2..Len(b) : lit_is_false(s2, b[i])

backjump_of_clause(s, b, s2) == backjump_is_right(s, b, prepare_to_backtrack(s, b), s2)

\* a is the result of analyze_conflict
backjump_after_analysis(a, s2) == backjump_of_clause(a.s, simplify_learned_clause(a), s2)

\* C26: the backtrack level of a learned clause is the highest level of
\* its literals other than the one at position 0 (0 for a clause of one
\* literal), a literal of that level is at position 1, and after
\* resolve_conflict the solver is at that level, the literal at position 0
\* is true with the learned clause (or the other literal of a binary
\* clause) as antecedent and the other literals are false.
C26_BackjumpInstallsClause ==
  at_conflict => backjump_after_analysis(analyze_conflict(solver), resolve_conflict(solver))

\* a learned clause of three literals or more whose literal of highest
\* level is moved to position 1
C26_Witness ==
  /\ at_conflict
  /\ Len(learned_clause(solver)) >= 3
  /\ prepare_to_backtrack(solver, learned_clause(solver)).buffer # learned_clause(solver)

(***************************************************************************)
(* Backtracking                                                            *)
(***************************************************************************)
\* the variables of s assigned at a level above d.  A variable eliminated
\* by preprocessing has a value but was not assigned at any level: when it
\* is substituted its entry of the array level is still the initial one
assigned_above(s, d) ==
  {x \in 1..(s.nvars - 1) :
     var_is_assigned(s, x) /\ ~var_is_eliminated(s, x) /\ At(s.level, x) > d}

\* the variables in the activity heap
vars_in_heap(heap) == {x \in 1..(heap.nvars - 1) : heap_index_of(heap, x) >= 0}

\* the first position of the stack of s whose literal has a level above d
first_position_above(s, d) ==
  Cardinality({i \in 0..(s.stack.top - 1) : d_level(s, At(s.stack.lit, i)) <= d})

\* s2 is the solver after backtrack(s, d)
backtrack_frame(s, d, s2) ==
  /\ \A x \in assigned_above(s, d) :
       /\ var_is_unassigned(s2, x)
       /\ x \in vars_in_heap(s2.heap)
  /\ \A x \in 0..(s.nvars - 1) :
       x \notin assigned_above(s, d) =>
         /\ At(s2.value, pos_lit(x)) = At(s.value, pos_lit(x))
         /\ At(s2.value, neg_lit(x)) = At(s.value, neg_lit(x))
  /\ vars_in_heap(s2.heap) = vars_in_heap(s.heap) \cup assigned_above(s, d)
  /\ s2.level = s.level
  /\ s2.ante_tag = s.ante_tag
  /\ s2.ante_data = s.ante_data
  /\ s2.stack.top = first_position_above(s, d)
  /\ s2.stack.top = At(s.stack.level_index, d + 1)
  /\ s2.stack.prop_ptr = s2.stack.top
  /\ \A i \in 0..(s2.stack.top - 1) :
       /\ At(s2.stack.lit, i) = At(s.stack.lit, i)
       /\ d_level(s, At(s.stack.lit, i)) <= d
  /\ s2.decision_level = d
  /\ s2.pool = s.pool
  /\ s2.watch = s.watch

\* sat_search or nsat_solve may call backtrack from these places
may_backtrack == pc \in {"branch", "restart"} /\ solver.decision_level > 0

\* C27: backtrack to a level d below the decision level unassigns exactly
\* the variables assigned above d and puts them in the heap, sets the top
\* of the stack and the propagation pointer to the first position of level
\* d + 1 and the decision level to d, and leaves the values of the other
\* variables, the arrays level, ante_tag and ante_data, the pool and the
\* watch vectors as they were.
C27_BacktrackFrame ==
  may_backtrack =>
    \A d \in 0..(solver.decision_level - 1) :
      backtrack_frame(solver, d, backtrack(solver, d))

\* a state at level 3 where backtrack to level 1 unassigns implied literals
C27_Witness ==
  /\ may_backtrack
  /\ solver.decision_level = 3
  /\ Cardinality(assigned_above(solver, 1)) >= 3

(***************************************************************************)
(* Watch vectors during propagation                                        *)
(***************************************************************************)
\* the entries of the watch vector w from position i on, without the
\* blockers: the word 2 l + 1 of a binary clause or the index of a clause
RECURSIVE watch_entries(_, _)
watch_entries(w, i) ==
  IF i > Len(w) THEN <<>>
  ELSE IF idx_is_literal(w[i]) THEN <<w[i]>> \o watch_entries(w, i + 1)
  ELSE <<w[i]>> \o watch_entries(w, i + 2)

\* the entries of e from position i on that are in the set keep
RECURSIVE entries_in(_, _, _)
entries_in(e, keep, i) ==
  IF i > Len(e) THEN <<>>
  ELSE (IF e[i] \in keep THEN <<e[i]>> ELSE <<>>) \o entries_in(e, keep, i + 1)

\* the clauses of the entries e whose two watched literals in s1 do not
\* include l0: propagate_from_literal has moved their watch
moved_clauses(s1, e, l0) ==
  {e[i] : i \in {j \in 1..Len(e) :
                   /\ ~idx_is_literal(e[j])
                   /\ first_literal_of_clause(s1.pool, e[j]) # l0
                   /\ second_literal_of_clause(s1.pool, e[j]) # l0}}

\* s1 is the solver after propagate_from_literal(s, l0), e the entries of
\* the watch vector of l0 in s and mv the clauses moved
watch_frame_on(s, l0, s1, e, mv) ==
  /\ watch_entries(At(s1.watch, l0), 1) = entries_in(e, lits_of(e) \ mv, 1)
  /\ Cardinality(lits_of(e)) = Len(e)
  /\ \A l \in 0..(s.nliterals - 1) :
       l # l0 =>
         /\ Len(At(s1.watch, l)) >= Len(At(s.watch, l))
         /\ SubSeq(At(s1.watch, l), 1, Len(At(s.watch, l))) = At(s.watch, l)
         /\ watch_entries(SubSeq(At(s1.watch, l), Len(At(s.watch, l)) + 1,
                                 Len(At(s1.watch, l))), 1)
              = entries_in(e, {k \in mv : second_literal_of_clause(s1.pool, k) = l}, 1)

watch_frame(s, l0, s1) ==
  watch_frame_on(s, l0, s1, watch_entries(At(s.watch, l0), 1),
                 moved_clauses(s1, watch_entries(At(s.watch, l0), 1), l0))

\* the calls of propagate_from_literal made by nsat_boolean_propagation
\* from the position i of the stack of s all satisfy watch_frame
RECURSIVE propagation_keeps_watches(_, _)
\* s1 is the solver after propagate_from_literal(s, l0)
watches_after_literal(s, l0, s1, i) ==
  /\ watch_frame(s, l0, s1)
  /\ s1.conflict_tag # CTAG_NONE \/ propagation_keeps_watches(s1, i + 1)

watches_from_literal(s, l0, i) ==
  watches_after_literal(s, l0, propagate_from_literal(s, l0), i)

propagation_keeps_watches(s, i) ==
  i >= s.stack.top \/ watches_from_literal(s, not(At(s.stack.lit, i)), i)

\* C28: when propagate_from_literal(l0) ends, with or without a conflict,
\* the watch vector of l0 holds the entries it held before, in the same
\* order, except the clauses whose watch was moved; each of these is
\* appended to the vector of the literal now at position 1 of the clause,
\* and the vectors of the other literals are unchanged.
C28_PropagationKeepsWatches ==
  pc \in {"search", "level0"} => propagation_keeps_watches(solver, solver.stack.prop_ptr)

\* the first call of the propagation that is about to start moves the
\* watch of a clause
first_call_moves_clause(s, l0) ==
  moved_clauses(propagate_from_literal(s, l0), watch_entries(At(s.watch, l0), 1), l0) # {}

\* a propagation is about to start, its first call of
\* propagate_from_literal moves the watch of a clause and it ends with a
\* conflict
C28_Witness ==
  /\ pc = "search"
  /\ solver.stack.prop_ptr < solver.stack.top
  /\ first_call_moves_clause(solver, not(At(solver.stack.lit, solver.stack.prop_ptr)))
  /\ nsat_boolean_propagation(solver).conflict_tag # CTAG_NONE

(***************************************************************************)
(* Decisions                                                               *)
(***************************************************************************)
\* the variables that can be decided: unassigned and not eliminated
active_variables(s) == {x \in 1..(s.nvars - 1) : var_is_active(s, x)}

\* every active variable is in the heap or at heap.vmax or above
heap_covers_active_variables(s) ==
  \A x \in active_variables(s) : x \in vars_in_heap(s.heap) \/ x >= s.heap.vmax

\* r is the result of nsat_select_decision_variable(s)
selection_is_right(s, r) ==
  /\ r.x # 0 => r.x \in active_variables(s)
  /\ r.x = 0 => active_variables(s) = {}

\* r is the result of nsat_select_decision_variable(s), randomness 0
selection_is_maximal(s, r) ==
  /\ selection_is_right(s, r)
  /\ r.x # 0 => \A y \in active_variables(s) :
                  At(s.heap.activity, y) <= At(s.heap.activity, r.x)

\* sat_search is about to select a decision variable
at_decision == pc = "branch" /\ solver.conflict_tag = CTAG_NONE /\ ~need_restart(solver)

\* s is the solver when nsat_select_decision_variable is called.  With no
\* random decision so far, s is also the solver reached when the caller
\* has set the randomness to 0 (nsat_set_randomness), but for the state of
\* the generator
decision_is_right(s) ==
  /\ heap_covers_active_variables(s)
  /\ selection_is_right(s, nsat_select_decision_variable(s))
  /\ s.stats.random_decisions = 0 =>
       selection_is_maximal(s, nsat_select_decision_variable(
                                 [s EXCEPT !.params.randomness = 0]))

\* C29: nsat_select_decision_variable returns only a variable that is
\* unassigned and not eliminated, with randomness 0 one of maximal activity
\* among these, and 0 only when there is none; every such variable is in
\* the heap or has an index from heap.vmax on.
C29_DecisionVariable ==
  /\ at_decision => decision_is_right(before_decision(solver))
  /\ pc \in {"search", "branch", "restart"} => heap_covers_active_variables(solver)

\* a decision point where the heap holds a variable of positive activity
\* and a variable that was never assigned is still to be found from vmax
C29_Witness ==
  /\ at_decision
  /\ \E x \in active_variables(solver) :
       x \in vars_in_heap(solver.heap) /\ At(solver.heap.activity, x) > 0
  /\ \E x \in active_variables(solver) :
       x \notin vars_in_heap(solver.heap) /\ x >= solver.heap.vmax

(***************************************************************************)
(* Preferred polarities                                                    *)
(***************************************************************************)
\* the variables that the solvers s and s2 both have
common_variables(s, s2) ==
  {x \in 1..(s.nvars - 1) : x < s2.nvars}

\* the variable x, assigned in s, is unassigned in s2 and its values keep
\* the low-order bit they had: true becomes 'unassigned, prefers true' and
\* false 'unassigned, prefers false'
polarity_is_saved(s, s2, x) ==
  /\ At(s2.value, pos_lit(x)) = At(s.value, pos_lit(x)) - 2
  /\ At(s2.value, neg_lit(x)) = At(s.value, neg_lit(x)) - 2

\* a step of nsat_solve from s to s2 that unassigns variables saves their
\* polarities, and leaves the values of the variables unassigned before
\* and after as they were
polarities_are_kept(s, s2) ==
  \A x \in common_variables(s, s2) :
    /\ (var_is_assigned(s, x) /\ var_is_unassigned(s2, x)) => polarity_is_saved(s, s2, x)
    /\ (var_is_unassigned(s, x) /\ var_is_unassigned(s2, x)) =>
         /\ At(s2.value, pos_lit(x)) = At(s.value, pos_lit(x))
         /\ At(s2.value, neg_lit(x)) = At(s.value, neg_lit(x))

\* the literal that the decision made in the step from s to s2 assigns is
\* the positive literal of its variable when the stored value of that
\* literal in s is 'unassigned, prefers true', the negative one otherwise
decision_follows_polarity(s, s2) ==
  LET l == At(s2.stack.lit, s2.stack.top - 1)
  IN  /\ At(s2.ante_tag, var_of(l)) = ATAG_DECISION
      /\ var_is_unassigned(s, var_of(l))
      /\ (l = pos_lit(var_of(l))) = (At(s.value, pos_lit(var_of(l))) = VAL_UNDEF_TRUE)

\* the variables that s2 has and s has not are unassigned and prefer false
new_variables_prefer_false(s, s2) ==
  \A x \in 1..(s2.nvars - 1) :
    x >= s.nvars =>
      /\ At(s2.value, pos_lit(x)) = VAL_UNDEF_FALSE
      /\ At(s2.value, neg_lit(x)) = VAL_UNDEF_TRUE

polarity_step ==
  /\ pc # "idle" => polarities_are_kept(solver, solver')
  /\ (pc = "branch" /\ solver'.stats.decisions > solver.stats.decisions) =>
       decision_follows_polarity(solver, solver')
  /\ (pc = "idle" /\ solver'.nvars > solver.nvars) =>
       new_variables_prefer_false(solver, solver')

\* C30: a step of nsat_solve that unassigns a variable stores the polarity
\* it had, no step of nsat_solve changes the polarity stored for a variable
\* that stays unassigned, a decision assigns the literal of the stored
\* polarity, and a new variable is stored as preferring false: so a
\* variable unassigned by backtracking is decided with the polarity of its
\* last assignment and a variable never assigned is decided false.
C30_DecisionsFollowSavedPolarity == [][polarity_step]_vars

\* a decision on a positive literal: the variable was true when backtrack
\* unassigned it
C30_Witness ==
  /\ pc = "search"
  /\ solver.decision_level > 0
  /\ \E i \in 0..(solver.stack.top - 1) :
       /\ At(solver.ante_tag, var_of(At(solver.stack.lit, i))) = ATAG_DECISION
       /\ At(solver.stack.lit, i) % 2 = 0

\* ---------------------------------------------------------------------
\* Locked clauses and deletion

\* clause cidx is the antecedent of an assigned variable
is_antecedent_of_assigned(s, cidx) ==
  \E x \in 1..(s.nvars - 1) :
    /\ var_is_assigned(s, x)
    /\ At(s.ante_tag, x) = ATAG_CLAUSE
    /\ At(s.ante_data, x) = cidx

\* sat_search is about to call nsat_reduce_learned_clause_set
at_reduce ==
  /\ pc = "branch"
  /\ solver.conflict_tag = CTAG_NONE
  /\ ~need_restart(solver)
  /\ need_reduce(solver)

\* the solver after nsat_set_keep_lbd(solver, 0): no clause is precious
without_precious_clauses(s) == [s EXCEPT !.params.keep_lbd = 0]

\* the learned clauses that a reduce round removes from the pool of s
reduced_clauses(s, s2) ==
  {lits_of(clause_literals(s.pool, c)) : c \in pool_clauses(s.pool, s.pool.learned)}
    \ {lits_of(clause_literals(s2.pool, c)) : c \in pool_clauses(s2.pool, s2.pool.learned)}

\* a reduce round neither selects nor deletes the antecedent of an
\* assigned variable, and the antecedents designate the same clauses after
reduce_keeps_locked_clauses(s, s2) ==
  /\ \A i \in 1..Len(collect_learned_clauses(s)) :
       ~is_antecedent_of_assigned(s, collect_learned_clauses(s)[i])
  /\ \A c \in pool_clauses(s.pool, s.pool.learned) :
       is_antecedent_of_assigned(s, c) =>
         lits_of(clause_literals(s.pool, c)) \notin reduced_clauses(s, s2)
  /\ \A x \in 1..(s.nvars - 1) :
       var_is_assigned(s, x) /\ At(s.ante_tag, x) = ATAG_CLAUSE =>
         /\ At(s2.ante_tag, x) = ATAG_CLAUSE
         /\ At(s2.ante_data, x) \in pool_clauses(s2.pool, 0)
         /\ clause_literals(s2.pool, At(s2.ante_data, x)) =
              clause_literals(s.pool, At(s.ante_data, x))

reduce_round_keeps_locked(s) ==
  reduce_keeps_locked_clauses(s, nsat_reduce_learned_clause_set(s))

\* the solver that nsat_simplify passes to simplify_clause_database
solver_after_scc(s0) ==
  IF s0.binaries > s0.simplify_binaries THEN try_scc_simplification(s0) ELSE s0

database_input ==
  solver_after_scc([before_simplify EXCEPT !.simplify_new_units = 0,
                                           !.simplify_new_bins = 0])

simplifies_database(s1) ==
  /\ ~s1.has_empty_clause
  /\ ~s1.in_scan_loop
  /\ level0_literals(s1) > s1.simplify_assigned

\* the clauses that the loop of simplify_clause_database deletes while
\* they are locked, from clause cidx on
RECURSIVE locked_clauses_deleted_from(_, _)
locked_clauses_deleted_next(s, cidx, r) ==
  (IF r.deleted /\ clause_is_locked(s, cidx) THEN {cidx} ELSE {})
    \cup locked_clauses_deleted_from(r.s, clause_pool_next_clause(r.s.pool, cidx))

locked_clauses_deleted_from(s, cidx) ==
  IF cidx >= s.pool.size THEN {}
  ELSE locked_clauses_deleted_next(s, cidx, simplify_clause(s, cidx))

locked_clauses_deleted(s1) ==
  locked_clauses_deleted_from(simplify_binary_clauses(s1),
                              clause_pool_first_clause(s1.pool))

\* after simplify_clause_database no assigned variable has a clause as
\* antecedent: the antecedents of the level-0 literals are all units
no_clause_antecedent(s) ==
  \A x \in 1..(s.nvars - 1) :
    var_is_assigned(s, x) => At(s.ante_tag, x) # ATAG_CLAUSE

database_leaves_no_dead_antecedent(s1) ==
  simplifies_database(s1) =>
    LET s2 == simplify_clause_database(s1)
    IN  ~s2.in_scan_loop => no_clause_antecedent(s2)

with_full_reduction(s) ==
  [s EXCEPT !.params.keep_lbd = 0, !.params.reduce_fraction = 32]

learned_clauses_of(s) == pool_clauses(s.pool, s.pool.learned)

\* the learned clauses that are neither locked nor precious
reduce_candidates(s) ==
  {c \in learned_clauses_of(s) :
     /\ ~(/\ var_is_assigned(s, var_of(first_literal_of_clause(s.pool, c)))
          /\ At(s.ante_tag, var_of(first_literal_of_clause(s.pool, c))) = ATAG_CLAUSE
          /\ At(s.ante_data, var_of(first_literal_of_clause(s.pool, c))) = c)
     /\ clause_length(s.pool, c) > s.params.keep_lbd
     /\ Cardinality({At(s.level, var_of(l)) : l \in lits_of(clause_literals(s.pool, c))})
          > s.params.keep_lbd}

\* the arrays of distinct elements of the set S
RECURSIVE arrays_of(_)
arrays_of(S) ==
  {<<>>} \cup UNION {{<<c>> \o a : a \in arrays_of(S \ {c})} : c \in S}

\* a is in the order of a reduce round: activity, then index
in_reduce_order(s, a) ==
  \A i, j \in 1..Len(a) :
    i < j =>
      \/ clause_aux(s.pool, a[i]) < clause_aux(s.pool, a[j])
      \/ /\ clause_aux(s.pool, a[i]) = clause_aux(s.pool, a[j])
         /\ a[i] < a[j]

sorts_in_reduce_order(s, a, b) ==
  /\ Len(b) = Len(a)
  /\ {b[i] : i \in 1..Len(b)} = {a[i] : i \in 1..Len(a)}
  /\ in_reduce_order(s, b)

\* the same with the activities of sb, where a clause has been bumped
sorts_with_activity(sb, a) ==
  sorts_in_reduce_order(sb, a, sort_learned_clauses(sb, a))

\* the array that a reduce round deletes from
sorted_candidates(s) == sort_learned_clauses(s, collect_learned_clauses(s))

\* the round deletes the clauses a[1 .. n0] and no other learned clause
reduce_deletes_prefix(s, a, n0, s2) ==
  /\ n0 <= Len(a)
  /\ reduced_clauses(s, s2) =
       {lits_of(clause_literals(s.pool, a[i])) : i \in 1..n0}
  /\ s2.pool.num_learned_clauses = s.pool.num_learned_clauses - n0

reduce_round_is_right(s) ==
  /\ {collect_learned_clauses(s)[i] : i \in 1..Len(collect_learned_clauses(s))}
       = reduce_candidates(s)
  /\ Len(collect_learned_clauses(s)) = Cardinality(reduce_candidates(s))
  /\ \A a \in arrays_of(pool_clauses(s.pool, 0)) :
       /\ sorts_in_reduce_order(s, a, sort_learned_clauses(s, a))
       /\ \A c \in pool_clauses(s.pool, 0) :
            sorts_with_activity(increase_clause_activity(s, c), a)
  /\ reduce_deletes_prefix(s, sorted_candidates(s),
                           s.params.reduce_fraction * (Len(sorted_candidates(s)) \div 32),
                           nsat_reduce_learned_clause_set(s))

reduce_deletes_fraction(s) ==
  reduce_deletes_prefix(s, sorted_candidates(s),
                        (Len(sorted_candidates(s)) * s.params.reduce_fraction) \div 32,
                        nsat_reduce_learned_clause_set(s))

RECURSIVE clause_sequence(_, _)
clause_sequence(pool, i) ==
  IF i >= pool.size THEN <<>>
  ELSE IF At(pool.data, i) = 0
  THEN IF At(pool.data, i + 1) = 0 THEN <<>>
       ELSE clause_sequence(pool, i + At(pool.data, i + 1))
  ELSE <<clause_literals(pool, i)>>
         \o clause_sequence(pool, i + full_length(clause_length(pool, i)))

\* the number of words of the clauses of the sequence q
RECURSIVE words_of_clauses(_)
words_of_clauses(q) ==
  IF q = <<>> THEN 0 ELSE full_length(Len(q[1])) + words_of_clauses(Tail(q))

\* the binary entries of the watch vector w and its clause entries (index
\* and blocker) below base, in the order of the vector
RECURSIVE entries_below(_, _, _)
entries_below(w, base, i) ==
  IF i > Len(w) THEN <<>>
  ELSE IF w[i] % 2 = 1 THEN <<w[i]>> \o entries_below(w, base, i + 1)
  ELSE (IF w[i] < base THEN <<w[i], w[i + 1]>> ELSE <<>>)
         \o entries_below(w, base, i + 2)

\* the variables with a clause at or above base as antecedent
vars_implied_from(s, base) ==
  {x \in 1..(s.nvars - 1) :
     /\ var_is_assigned(s, x)
     /\ At(s.ante_tag, x) = ATAG_CLAUSE
     /\ At(s.ante_data, x) >= base}

\* s2 is s after a garbage collection from base
gc_frame(s, base, s2) ==
  /\ ~s2.in_scan_loop
  /\ clause_sequence(s2.pool, base) = clause_sequence(s.pool, base)
  /\ clause_sequence(s2.pool, s2.pool.learned)
       = clause_sequence(s.pool, s.pool.learned)
  /\ s2.pool.size = base + words_of_clauses(clause_sequence(s.pool, base))
  /\ Prefix(s2.pool.data, base) = Prefix(s.pool.data, base)
  /\ \A l \in 0..(s.nliterals - 1) :
       entries_below(At(s2.watch, l), base, 1) = entries_below(At(s.watch, l), base, 1)
  /\ s2.ante_tag = s.ante_tag
  /\ \A x \in 1..(s.nvars - 1) :
       IF x \in vars_implied_from(s, base)
       THEN /\ At(s2.ante_data, x) \in pool_clauses(s2.pool, base)
            /\ At(s2.pool.data, At(s2.ante_data, x)) < CLAUSE_MARK
            /\ clause_literals(s2.pool, At(s2.ante_data, x))
                 = clause_literals(s.pool, At(s.ante_data, x))
       ELSE At(s2.ante_data, x) = At(s.ante_data, x)

gc_is_right(s, base, watches_ready) ==
  gc_frame(s, base, collect_garbage(s, base, watches_ready))

\* the solver after the deletion of the clauses of the array a, which are
\* not antecedents
without_clauses(s, a) ==
  [s EXCEPT !.pool = delete_clauses(@, a, Len(a))]

\* the arrays of at most two clauses of s that may be deleted
deletable_arrays(s) ==
  {a \in arrays_of({c \in pool_clauses(s.pool, 0) :
                        ~is_antecedent_of_assigned(s, c)}) : Len(a) <= 2}

\* the solver that simplify_clause_database passes to collect_garbage
simplified_database(s1) ==
  remove_dead_antecedents(simplify_all_clauses(simplify_binary_clauses(s1)))

\* C33: collect_garbage from a base index keeps the live clauses at or
\* above the base with their literals in order and in the same relative
\* order, leaves no padding there, leaves the pool below the base, the
\* binary watch entries and the clause entries below the base as they
\* are, and every variable implied by a clause at or above the base has
\* the same clause as antecedent after.  Checked at the calls of the
\* reduce round and of simplify_clause_database, and from both bases after
\* the deletion of any one or two clauses that are not antecedents.
C33_GarbageCollectionFrame ==
  /\ at_reduce =>
       /\ gc_is_right(delete_less_active(solver, sorted_candidates(solver)),
                      solver.pool.learned, FALSE)
       /\ \A a \in deletable_arrays(solver) :
            /\ gc_is_right(without_clauses(solver, a), 0, FALSE)
            /\ gc_is_right(without_clauses(solver, a), solver.pool.learned, FALSE)
  /\ about_to_simplify /\ simplifies_database(database_input) =>
       gc_is_right(simplified_database(database_input), 0, TRUE)

\* a collection that moves the antecedent of an assigned variable
moves_antecedent(s, s2) ==
  \E x \in vars_implied_from(s, 0) : At(s2.ante_data, x) < At(s.ante_data, x)

C33_Witness ==
  /\ at_reduce
  /\ solver.pool.learned > 0
  /\ solver.pool.size > solver.pool.learned
  /\ \E a \in deletable_arrays(solver) :
       /\ Len(a) = 2
       /\ moves_antecedent(solver, collect_garbage(without_clauses(solver, a), 0, FALSE))

\* ---------------------------------------------------------------------
\* Leaving the search loop for a restart

\* values of the two averages: 0, 1/16, 1, 1.1328125, 1.8125 (with and
\* without one more unit), 2 and 3 in units of 2^32
EmaSamples ==
  {<<0, 0>>, <<16, 0>>, <<256, 0>>, <<290, 0>>, <<464, 0>>, <<464, 1>>,
   <<512, 0>>, <<768, 0>>}

with_emas(s, fast, slow) == [s EXCEPT !.fast_ema = fast, !.slow_ema = slow]

\* fast - fast/16 - fast/32 >= slow, in fixed point
fast_is_worse(fast, slow) ==
  ema_ge(ema_sub(ema_sub(fast, ema_shr(fast, 4)), ema_shr(fast, 5)), slow)

\* the restart test, with the decision level compared to the average avg
restart_is_due(s, avg) ==
  /\ s.stats.conflicts >= s.restart_next
  /\ s.decision_level >= avg[1] \div 256
  /\ fast_is_worse(s.fast_ema, s.slow_ema)

\* need_restart on the solver s and on s with other averages
restart_test_uses_fast(s) ==
  /\ need_restart(s) <=> restart_is_due(s, s.fast_ema)
  /\ \A fast, slow \in EmaSamples :
       need_restart(with_emas(s, fast, slow))
         <=> restart_is_due(with_emas(s, fast, slow), fast)

restart_test_uses_slow(s) ==
  /\ need_restart(s) <=> restart_is_due(s, s.slow_ema)
  /\ \A fast, slow \in EmaSamples :
       need_restart(with_emas(s, fast, slow))
         <=> restart_is_due(with_emas(s, fast, slow), slow)

\* a step of sat_search after a propagation: it leaves for a restart
\* exactly when there is no conflict and the restart is due, and then the
\* solver is left as it is (no reduce, no decision)
leaves_for_restart ==
  pc = "branch" =>
    /\ pc' = "restart" =>
         /\ solver.conflict_tag = CTAG_NONE
         /\ restart_is_due(solver, solver.fast_ema)
         /\ solver' = solver
    /\ solver.conflict_tag = CTAG_NONE /\ restart_is_due(solver, solver.fast_ema) =>
         /\ pc' = "restart"
         /\ solver' = solver

restart_step == leaves_for_restart /\ (pc = "branch" => restart_test_uses_fast(solver))

claimed_restart_step ==
  leaves_for_restart /\ (pc = "branch" => restart_test_uses_slow(solver))

RECURSIVE blocks_are_well_formed(_, _)
blocks_are_well_formed(pool, i) ==
  IF i >= pool.size THEN TRUE
  ELSE IF At(pool.data, i) = 0
  THEN /\ At(pool.data, i + 1) > 0
       /\ blocks_are_well_formed(pool, i + At(pool.data, i + 1))
  ELSE /\ At(pool.data, i) % CLAUSE_MARK >= 2
       /\ blocks_are_well_formed(pool, i + full_length(At(pool.data, i) % CLAUSE_MARK))

\* C35: every clause stored in the pool has two literals or more, so that
\* no clause header reads as a padding header and no padding block has
\* length 0, in preprocessing and in search.
C35_PoolClausesHaveTwoLiterals == blocks_are_well_formed(solver.pool, 0)

\* ---------------------------------------------------------------------
\* Padding blocks

\* the indices of the padding blocks met by a scan of the pool from i
RECURSIVE padding_blocks(_, _)
padding_blocks(pool, i) ==
  IF i >= pool.size THEN {}
  ELSE IF At(pool.data, i) = 0
  THEN IF At(pool.data, i + 1) = 0 THEN {i}
       ELSE {i} \cup padding_blocks(pool, i + At(pool.data, i + 1))
  ELSE padding_blocks(pool, i + full_length(At(pool.data, i) % CLAUSE_MARK))

\* the block that starts at i is followed by a padding block
followed_by_padding(pool, i) ==
  /\ i + At(pool.data, i + 1) < pool.size
  /\ At(pool.data, i + At(pool.data, i + 1)) = 0

\* a scan of the pool from index 0 that jumps over each padding block by
\* its length meets no padding block followed by another one
RECURSIVE no_adjacent_padding(_, _)
no_adjacent_padding(pool, i) ==
  IF i >= pool.size THEN TRUE
  ELSE IF At(pool.data, i) = 0
  THEN /\ At(pool.data, i + 1) > 0
       /\ ~followed_by_padding(pool, i)
       /\ no_adjacent_padding(pool, i + At(pool.data, i + 1))
  ELSE no_adjacent_padding(pool, i + full_length(At(pool.data, i) % CLAUSE_MARK))

\* the words of data2 are those of data but for the words i and i + 1
same_but_header(data, data2, i) ==
  /\ Len(data2) = Len(data)
  /\ \A k \in 1..Len(data) : k \notin {i + 1, i + 2} => data2[k] = data[k]

\* p2 is pool with a new padding block of n words at i: the header is
\* (0, length), the block takes in the padding block that follows it, if
\* any, and is then not followed by a padding block
new_padding_block(pool, i, n, p2) ==
  /\ At(p2.data, i) = 0
  /\ At(p2.data, i + 1) =
       n + (IF i + n < pool.size /\ At(pool.data, i + n) = 0
            THEN At(pool.data, i + n + 1) ELSE 0)
  /\ ~followed_by_padding(p2, i)
  /\ p2.padding = pool.padding + n
  /\ p2.size = pool.size

\* the clauses found by a scan are the same but for the one at index c
scan_without(pool, c, p2) ==
  /\ pool_clauses(p2, 0) = pool_clauses(pool, 0) \ {c}
  /\ \A d \in pool_clauses(p2, 0) : clause_literals(p2, d) = clause_literals(pool, d)

deletion_is_right(pool, c, p2) ==
  /\ new_padding_block(pool, c, full_length(clause_length(pool, c)), p2)
  /\ same_but_header(pool.data, p2.data, c)
  /\ scan_without(pool, c, p2)

\* the clause at c is cut to its first n literals
shrink_is_right(pool, c, n, p2) ==
  /\ At(p2.data, c) % CLAUSE_MARK = n
  /\ pool_clauses(p2, 0) = pool_clauses(pool, 0)
  /\ \A d \in pool_clauses(p2, 0) :
       clause_literals(p2, d) =
         IF d = c THEN Prefix(clause_literals(pool, c), n) ELSE clause_literals(pool, d)
  /\ IF full_length(n) < full_length(clause_length(pool, c))
     THEN new_padding_block(pool, c + full_length(n),
                            full_length(clause_length(pool, c)) - full_length(n), p2)
     ELSE p2.padding = pool.padding /\ padding_blocks(p2, 0) = padding_blocks(pool, 0)

\* two clauses c < d that follow each other: deleted from the higher one,
\* they leave one block; deleted from the lower one, they leave two, and
\* a scan finds the same clauses in both cases
two_deletions_are_right(pool, c, d) ==
  LET down == clause_pool_delete_clause(clause_pool_delete_clause(pool, d), c)
      up == clause_pool_delete_clause(clause_pool_delete_clause(pool, c), d)
  IN  /\ d \notin padding_blocks(down, 0)
      /\ {c, d} \subseteq padding_blocks(up, 0)
      /\ pool_clauses(up, 0) = pool_clauses(pool, 0) \ {c, d}
      /\ pool_clauses(down, 0) = pool_clauses(pool, 0) \ {c, d}
      /\ up.padding = down.padding

padding_is_right(pool) ==
  \A c \in pool_clauses(pool, 0) :
    /\ deletion_is_right(pool, c, clause_pool_delete_clause(pool, c))
    /\ \A n \in 2..(clause_length(pool, c) - 1) :
         shrink_is_right(pool, c, n, clause_pool_shrink_clause(pool, c, n))
    /\ \A d \in pool_clauses(pool, 0) :
         d = c + full_length(clause_length(pool, c)) =>
           two_deletions_are_right(pool, c, d)

\* the solver is not in the endless scan of a pool with an empty clause
scan_ends == pc # "scan_loop" /\ ~solver.in_scan_loop

\* C36 as stated: whatever the order of the deletions and of the shrinks,
\* no padding block of the pool is followed by another padding block
C36_NoAdjacentPaddingBlocks == scan_ends => no_adjacent_padding(solver.pool, 0)

\* C36: the place of a deleted clause, and the words cut from a shrunk
\* clause, are covered by a padding header (0, length); the new block is
\* merged with the padding block that follows it, if there is one, and not
\* with a block that precedes it: two clauses deleted in the order of the
\* pool leave two adjacent blocks, and a scan of the pool, which jumps
\* over every padding block it meets, finds the same clauses in all cases.
C36_PaddingMergesForward == scan_ends => padding_is_right(solver.pool)

\* a pool with two clauses that follow each other, the first one of three
\* literals or more: deleted in this order they leave two adjacent blocks
C36_Witness ==
  /\ scan_ends
  /\ \E c, d \in pool_clauses(solver.pool, 0) :
       /\ clause_length(solver.pool, c) >= 3
       /\ d = c + full_length(clause_length(solver.pool, c))
       /\ ~no_adjacent_padding(
             clause_pool_delete_clause(clause_pool_delete_clause(solver.pool, c), d), 0)

\* ---------------------------------------------------------------------
\* Subsumption and strengthening

\* the clause of literals A subsumes the clause of literals B
subsumes(A, B) == A \subseteq B

\* the clause A strengthens B on its literal l: B loses not(l)
strengthens(A, B, l) == l \in A /\ not(l) \in B /\ (A \ {l}) \subseteq B

\* the array b without its literal l
without_literal(b, l) == SelectSeq(b, LAMBDA m : m # l)

\* r is the result of try_subsumption on the clause d of s, of literals b,
\* which loses the literal l
strengthening_is_right(s, d, b, l, r) ==
  IF Len(b) = 2
  THEN /\ ~clause_is_live(r.s.pool, d)
       /\ \/ ~r.ok
          \/ /\ lit_value(r.s, without_literal(b, l)[1]) = VAL_TRUE
             /\ At(r.s.ante_tag, var_of(without_literal(b, l)[1])) = ATAG_UNIT
  ELSE IF r.s.value = s.value
  THEN /\ clause_is_live(r.s.pool, d)
       /\ clause_literals(r.s.pool, d) = without_literal(b, l)
       /\ clause_signature(r.s.pool, d) = sig_of_lits(without_literal(b, l), 1, 0)
  ELSE \/ ~clause_is_live(r.s.pool, d)
       \/ lits_of(clause_literals(r.s.pool, d)) \subseteq (lits_of(b) \ {l})

\* r is the result of try_subsumption of the clause d of s by the array a
subsumption_result_is_right(s, a, d, r) ==
  IF subsumes(lits_of(a), lits_of(clause_literals(s.pool, d)))
  THEN ~clause_is_live(r.s.pool, d)
  ELSE IF \E l \in lits_of(a) : strengthens(lits_of(a), lits_of(clause_literals(s.pool, d)), l)
  THEN \A l \in lits_of(a) :
         strengthens(lits_of(a), lits_of(clause_literals(s.pool, d)), l) =>
           strengthening_is_right(s, d, clause_literals(s.pool, d), not(l), r)
  ELSE r.s = s /\ r.ok

\* try_subsumption on every pair of live clauses of s
subsumption_is_right(s) ==
  \A c, d \in pool_clauses(s.pool, 0) :
    c # d =>
      subsumption_result_is_right(
        s, clause_literals(s.pool, c), d,
        try_subsumption(s, clause_literals(s.pool, c), clause_signature(s.pool, c), d))

\* s1 is the solver when nsat_preprocess calls pp_subsumption
subsumption_is_right_at(s1) ==
  s1.has_empty_clause \/ s1.in_scan_loop \/ subsumption_is_right(s1)

\* s0 is the solver when the elimination starts
subsumption_is_right_around(s0) ==
  /\ subsumption_is_right_at(s0)
  /\ subsumption_is_right_at(process_elimination_candidates(s0))

\* r is the result of the first loop of nsat_preprocess
subsumption_is_right_after(r) ==
  ~r.ok \/ subsumption_is_right_around(
             collect_elimination_candidates(prepare_elim_heap(r.s)))

\* C37: try_subsumption with the clause C deletes the clause D when every
\* literal of C is in D; it removes from D the negation of a literal of C
\* when the other literals of C are in D, and then a D left with one
\* literal is deleted and that literal is assigned as a unit; in every
\* other case it changes nothing: the test on the lengths and on the
\* signatures rejects no D that C subsumes or strengthens.
C37_SubsumptionAndStrengthening ==
  pc = "preprocess" =>
    subsumption_is_right_after(pp_units_and_sccs(collect_unit_and_pure_literals(solver)))

\* s0 has a clause that subsumes another and a clause that strengthens
\* another, of three literals or more
has_subsumption_cases(s0) ==
  /\ ~s0.has_empty_clause
  /\ ~s0.in_scan_loop
  /\ \E c, d \in pool_clauses(s0.pool, 0) :
       /\ c # d
       /\ subsumes(lits_of(clause_literals(s0.pool, c)),
                   lits_of(clause_literals(s0.pool, d)))
  /\ \E c, d \in pool_clauses(s0.pool, 0) :
       /\ c # d
       /\ clause_length(s0.pool, d) >= 3
       /\ \E l \in lits_of(clause_literals(s0.pool, c)) :
            strengthens(lits_of(clause_literals(s0.pool, c)),
                        lits_of(clause_literals(s0.pool, d)), l)

has_subsumption_cases_after(r) ==
  r.ok /\ has_subsumption_cases(collect_elimination_candidates(prepare_elim_heap(r.s)))

C37_Witness ==
  /\ pc = "preprocess"
  /\ has_subsumption_cases_after(
       pp_units_and_sccs(collect_unit_and_pure_literals(solver)))

\* ---------------------------------------------------------------------
\* The elimination heap

check_elim_heap(s) ==
  /\ \A i \in 2..(s.elim.size - 1) :
       ~elim_lt(s, At(s.elim.data, i), At(s.elim.data, i \div 2))
  /\ \A i \in 0..(s.elim.size - 1) : At(s.elim.elim_idx, At(s.elim.data, i)) = i
  /\ \A x \in 0..(s.nvars - 1) :
       At(s.elim.elim_idx, x) >= 0 => At(s.elim.elim_idx, x) < s.elim.size

\* the variables in the heap
elim_heap_vars(s) == {At(s.elim.data, i) : i \in 1..(s.elim.size - 1)}

pos_occ(s, x) == At(s.occ, 2 * x)

neg_occ(s, x) == At(s.occ, (2 * x) + 1)

\* x has a literal that occurs at most once, and x occurs
is_cheap(s, x) ==
  /\ pos_occ(s, x) + neg_occ(s, x) > 0
  /\ pos_occ(s, x) <= 1 \/ neg_occ(s, x) <= 1

\* x has a literal that occurs exactly once
occurs_once(s, x) == pos_occ(s, x) = 1 \/ neg_occ(s, x) = 1

\* the order of the heap: cheap variables first, then the smaller product
comes_before(s, x, y) ==
  \/ is_cheap(s, x) /\ ~is_cheap(s, y)
  \/ /\ is_cheap(s, x) <=> is_cheap(s, y)
     /\ pos_occ(s, x) * neg_occ(s, x) < pos_occ(s, y) * neg_occ(s, y)

\* the order of the claim: a total order, with the ties broken by the
\* identifiers
comes_before_or_smaller(s, x, y) ==
  \/ occurs_once(s, x) /\ ~occurs_once(s, y)
  \/ /\ occurs_once(s, x) <=> occurs_once(s, y)
     /\ \/ pos_occ(s, x) * neg_occ(s, x) < pos_occ(s, y) * neg_occ(s, y)
        \/ /\ pos_occ(s, x) * neg_occ(s, x) = pos_occ(s, y) * neg_occ(s, y)
           /\ x < y

\* elim_lt is the order comes_before on the variables of the heap
elim_order_is_right(s) ==
  \A x, y \in elim_heap_vars(s) : elim_lt(s, x, y) <=> comes_before(s, x, y)

elim_order_is_total(s) ==
  \A x, y \in elim_heap_vars(s) : elim_lt(s, x, y) <=> comes_before_or_smaller(s, x, y)

\* the heap of s is well formed, and every update of a variable for its
\* occurrence counts leaves it well formed
elim_heap_is_right(s) ==
  /\ check_elim_heap(s)
  /\ elim_order_is_right(s)
  /\ \A x \in 1..(s.nvars - 1) : check_elim_heap(elim_heap_update_var(s, x))

\* the heap is right after each insertion of collect_elimination_candidates
RECURSIVE heap_is_right_from(_, _)
heap_is_right_from(s, i) ==
  /\ elim_heap_is_right(s)
  /\ i >= s.nvars
     \/ heap_is_right_from(IF var_is_active(s, i) /\ pp_elim_candidate(s, i)
                           THEN elim_heap_insert_var(s, i) ELSE s,
                           i + 1)

\* the heap is right at each step of process_elimination_candidates
RECURSIVE heap_is_right_in_loop(_)
\* r is the result of pp_empty_queue
heap_is_right_after_queue(r) ==
  /\ check_elim_heap(r.s)
  /\ ~r.ok \/ heap_is_right_in_loop(r.s)

\* s2 is the solver after pp_eliminate_variable
heap_is_right_after_variable(s2) ==
  /\ check_elim_heap(s2)
  /\ s2.has_empty_clause \/ s2.in_scan_loop
       \/ heap_is_right_after_queue(pp_empty_queue(s2))

\* s1 is the solver after elim_heap_get_top, which returned x
heap_is_right_at_step(s1, x) ==
  /\ elim_heap_is_right(s1)
  /\ IF var_is_assigned(s1, x) \/ At(s1.occ, pos_lit(x)) = 0 \/ At(s1.occ, neg_lit(x)) = 0
        \/ ~pp_variable_worth_eliminating(s1, x)
     THEN heap_is_right_in_loop(s1)
     ELSE heap_is_right_after_variable(pp_eliminate_variable(s1, x))

heap_is_right_in_loop(s) ==
  /\ elim_heap_is_right(s)
  /\ elim_heap_is_empty(s)
       \/ /\ \A y \in elim_heap_vars(s) : ~elim_lt(s, y, At(s.elim.data, 1))
          /\ heap_is_right_at_step(elim_heap_get_top(s), At(s.elim.data, 1))

\* r is the result of the first loop of nsat_preprocess
heap_is_right_after(r) ==
  ~r.ok \/ /\ heap_is_right_from(prepare_elim_heap(r.s), 1)
           /\ heap_is_right_in_loop(collect_elimination_candidates(prepare_elim_heap(r.s)))

\* r is the result of the first loop of nsat_preprocess
elim_order_is_total_after(r) ==
  ~r.ok \/ elim_order_is_total(collect_elimination_candidates(prepare_elim_heap(r.s)))

\* C38 as stated: the order of the heap is total, the variables with a
\* literal that occurs once come first and equal products are ordered by
\* the identifiers of the variables
C38_HeapOrderIsTotal ==
  pc = "preprocess" =>
    elim_order_is_total_after(pp_units_and_sccs(collect_unit_and_pure_literals(solver)))

\* C38: elim_lt puts the cheap variables (a literal with at most one
\* occurrence, and at least one occurrence in all) before the others, and
\* in each of the two groups the variable with the smaller product
\* pos_occ * neg_occ first; two variables of the same group with the same
\* product are not ordered.  The heap property for this order, with the
\* index of each variable, holds after every insertion, after every
\* removal of the top, after every elimination and after every update of
\* a variable for its occurrence counts.
C38_EliminationHeapOrder ==
  pc = "preprocess" =>
    heap_is_right_after(pp_units_and_sccs(collect_unit_and_pure_literals(solver)))

\* the heap holds a cheap variable, one that is not cheap, and two
\* variables of the same group with the same product
has_heap_cases(s0) ==
  /\ \E x, y \in elim_heap_vars(s0) : is_cheap(s0, x) /\ ~is_cheap(s0, y)
  /\ \E x, y \in elim_heap_vars(s0) :
       /\ x # y
       /\ is_cheap(s0, x) <=> is_cheap(s0, y)
       /\ pos_occ(s0, x) * neg_occ(s0, x) = pos_occ(s0, y) * neg_occ(s0, y)

has_heap_cases_after(r) ==
  r.ok /\ has_heap_cases(collect_elimination_candidates(prepare_elim_heap(r.s)))

C38_Witness ==
  /\ pc = "preprocess"
  /\ has_heap_cases_after(pp_units_and_sccs(collect_unit_and_pure_literals(solver)))

(***************************************************************************)
(* C39: model extension.                                                   *)
(***************************************************************************)
\* the end of the saved clause of the block a that starts at index i
clause_end(a, l, i) ==
  CHOOSE j \in i..Len(a) : a[j] = l /\ \A k \in i..(j - 1) : a[k] # l

\* the saved clauses of the block a from index i on, each as the set of
\* its literals other than l
RECURSIVE saved_clauses_of_block(_, _, _)
saved_clauses_of_block(a, l, i) ==
  IF i > Len(a) THEN {}
  ELSE {{a[k] : k \in i..(clause_end(a, l, i) - 1)}}
         \cup saved_clauses_of_block(a, l, clause_end(a, l, i) + 1)

\* a saved clause of the block a has all its literals other than l false
\* in s
block_forces_literal(s, a) ==
  \E c \in saved_clauses_of_block(a, a[Len(a)], 1) :
     \A z \in c : lit_value(s, z) = VAL_FALSE

\* s with the last literal of a valued by the block a
valued_by_block(s, a) ==
  [s EXCEPT !.value =
     [i \in 1..Len(@) |->
        IF i = a[Len(a)] + 1
        THEN (IF block_forces_literal(s, a) THEN VAL_TRUE ELSE VAL_FALSE)
        ELSE IF i = not(a[Len(a)]) + 1
        THEN (IF block_forces_literal(s, a) THEN VAL_FALSE ELSE VAL_TRUE)
        ELSE @[i]]]

\* the blocks b[k], b[k-1], ..., b[1] in this order
RECURSIVE valued_by_blocks(_, _, _)
valued_by_blocks(s, b, k) ==
  IF k = 0 THEN s ELSE valued_by_blocks(valued_by_block(s, b[k]), b, k - 1)

\* every literal of a block other than the last one has a value when the
\* block is processed
RECURSIVE blocks_are_valued(_, _, _)
blocks_are_valued(s, b, k) ==
  k = 0 \/ /\ \A i \in 1..(Len(b[k]) - 1) :
                b[k][i] = b[k][Len(b[k])] \/ lit_is_assigned(s, b[k][i])
           /\ blocks_are_valued(valued_by_block(s, b[k]), b, k - 1)

\* the variable of block k is valued as the block requires for the values
\* that s2 gives to the other variables
blocks_hold_in(s2, b) ==
  \A k \in 1..Len(b) :
     /\ lit_value(s2, b[k][Len(b[k])]) =
          (IF block_forces_literal(s2, b[k]) THEN VAL_TRUE ELSE VAL_FALSE)
     /\ lit_value(s2, not(b[k][Len(b[k])])) =
          (IF block_forces_literal(s2, b[k]) THEN VAL_FALSE ELSE VAL_TRUE)

\* s2 is the solver after extend_assignment on s, s1 the solver after
\* extend_assignment_by_substitution on s
extension_is_right(s, s1, s2, b) ==
  /\ blocks_are_valued(s1, b, Len(b))
  /\ s2 = valued_by_blocks(s1, b, Len(b))
  /\ blocks_hold_in(s2, b)

\* C39: extend_assignment processes the blocks of saved_clauses from the
\* last one saved to the first; for each block with last literal l it sets
\* l true when a saved clause of the block has all its other literals
\* false under the values fixed so far, and false otherwise, and gives
\* not(l) the opposite value; every other literal of the block has a value
\* at that time, and in the final assignment the variable of every block
\* has the value that its block requires.
C39_ModelExtension ==
  (pc = "done" /\ solver.status = STAT_SAT) =>
     extension_is_right(solver, extend_assignment_by_substitution(solver, 1),
                        extend_assignment(solver),
                        saved_blocks(solver.saved_clauses, Len(solver.saved_clauses)))

\* two blocks at least, one that forces its literal and one that does not,
\* and a block with a literal whose variable belongs to a later block
extension_has_cases(s2, b) ==
  /\ Len(b) >= 2
  /\ \E k \in 1..Len(b) : block_forces_literal(s2, b[k])
  /\ \E k \in 1..Len(b) : ~block_forces_literal(s2, b[k])
  /\ \E k, m \in 1..Len(b) :
       /\ k < m
       /\ \E i \in 1..(Len(b[k]) - 1) : var_of(b[k][i]) = var_of(b[m][Len(b[m])])

C39_Witness ==
  /\ pc = "done"
  /\ solver.status = STAT_SAT
  /\ extension_has_cases(extend_assignment(solver),
                         saved_blocks(solver.saved_clauses, Len(solver.saved_clauses)))

(***************************************************************************)
(* C40: the record of the substituted variables.                           *)
(***************************************************************************)
substituted_vars(s) == {x \in 1..(s.nvars - 1) : At(s.ante_tag, x) = ATAG_SUBST}

\* the triples (replacement, not(l), 2) of the substituted variables from
\* i on, l the positive literal of the variable
RECURSIVE subst_triples(_, _)
subst_triples(s, i) ==
  IF i >= s.nvars THEN <<>>
  ELSE (IF i \in substituted_vars(s) THEN <<At(s.ante_data, i), (2 * i) + 1, 2>> ELSE <<>>)
         \o subst_triples(s, i + 1)

\* saved_clauses has a block for the substitution of x
has_subst_block(s, x) ==
  \E n \in 3..Len(s.saved_clauses) :
     /\ s.saved_clauses[n] = 2
     /\ s.saved_clauses[n - 1] = (2 * x) + 1
     /\ s.saved_clauses[n - 2] = At(s.ante_data, x)

\* saved_clauses records every substituted variable
saved_clauses_record_substitutions(s) ==
  \A x \in substituted_vars(s) : has_subst_block(s, x)

\* r is the result of pp_scc_simplification on s1: without conflict the
\* triples of the substituted variables are appended to saved_clauses; with
\* a conflict nothing is appended
scc_saves_triples(s1, r) ==
  /\ r.ok => /\ r.s.saved_clauses = s1.saved_clauses \o subst_triples(r.s, 1)
             /\ saved_clauses_record_substitutions(r.s)
  /\ ~r.ok => r.s.saved_clauses = s1.saved_clauses

\* the loop  do { pp_empty_queue; pp_try_gc; pp_scc_simplification } of
\* nsat_preprocess from s: every call of pp_scc_simplification saves the
\* triples
RECURSIVE pp_saves_triples(_)
\* r is the result of pp_scc_simplification on s1
pp_saves_triples_again(s1, r) ==
  /\ scc_saves_triples(s1, r)
  /\ (r.ok /\ r.s.lqueue # <<>>) => pp_saves_triples(r.s)

\* s1 is the solver after pp_try_gc
pp_saves_triples_after_gc(s1) ==
  s1.in_scan_loop \/ pp_saves_triples_again(s1, pp_scc_simplification(s1))

\* r is the result of pp_empty_queue
pp_saves_triples_after_queue(r) ==
  ~r.ok \/ pp_saves_triples_after_gc(pp_try_gc(r.s))

pp_saves_triples(s) == pp_saves_triples_after_queue(pp_empty_queue(s))

\* s2 is the solver after the elimination loop of nsat_preprocess
pp_saves_triples_at_end(s2) == s2.in_scan_loop \/ pp_saves_triples(s2)

\* r is the result of the first loop of nsat_preprocess
pp_saves_triples_after(r) ==
  ~r.ok \/ pp_saves_triples_at_end(
             pp_eliminate_and_subsume(collect_elimination_candidates(prepare_elim_heap(r.s))))

\* the two loops of nsat_preprocess that call pp_scc_simplification
preprocessing_saves_triples(s0) ==
  /\ pp_saves_triples(s0)
  /\ pp_saves_triples_after(pp_units_and_sccs(s0))

\* in the assignment of s2 every substituted variable has the value of its
\* replacement
substituted_as_replacement(s2) ==
  \A x \in substituted_vars(s2) :
     /\ lit_value(s2, pos_lit(x)) = lit_value(s2, At(s2.ante_data, x))
     /\ lit_value(s2, pos_lit(x)) \in {VAL_FALSE, VAL_TRUE}
     /\ lit_value(s2, neg_lit(x)) = opposite_val(lit_value(s2, pos_lit(x)))

substitution_step ==
  /\ pc = "preprocess" =>
       preprocessing_saves_triples(collect_unit_and_pure_literals(solver))
  /\ pc \in {"level0", "simplify", "search", "branch", "restart"} =>
       solver'.saved_clauses = solver.saved_clauses
  /\ (pc = "done" /\ solver.status = STAT_SAT) => substituted_as_replacement(solver')

\* C40 as stated: saved_clauses alone records every substituted variable
C40_SavedClausesRecordSubstitutions ==
  ~solver.has_empty_clause => saved_clauses_record_substitutions(solver)

\* C40: every call of pp_scc_simplification in nsat_preprocess that ends
\* without conflict appends to saved_clauses the triple (replacement,
\* not(l), 2) of every variable whose tag is ATAG_SUBST; a substitution
\* during search (try_scc_simplification) appends nothing: no step of the
\* search changes saved_clauses, the substituted variable is recorded by
\* its tag ATAG_SUBST and its replacement in ante_data only, and when solve
\* returns sat the variable has the value of its replacement.
C40_SubstitutionRecord == [][substitution_step]_vars

\* solve has returned sat on a solver that was not preprocessed, with a
\* variable substituted during the search, valued as its replacement, and
\* nothing in saved_clauses
C40_Witness ==
  /\ pc = "idle"
  /\ solver.status = STAT_SAT
  /\ ~preprocessed
  /\ substituted_vars(solver) # {}
  /\ substituted_as_replacement(solver)
  /\ solver.saved_clauses = <<>>

====
